---- MODULE Spec2Model ----
(***************************************************************************)
(* A model of the storage and concurrency-control core of BusTub:          *)
(*   - the lock manager        (src/src/concurrency/lock_manager.cpp)      *)
(*   - the buffer pool         (src/src/buffer/*.cpp,                      *)
(*                              src/src/container/hash/*.cpp)              *)
(*   - the B+tree index        (src/src/storage/index/*.cpp,               *)
(*                              src/src/storage/page/*.cpp)                *)
(* Each subsystem has its own specification (SpecLM, SpecBPM, SpecTree,    *)
(* SpecLatch for calls of the B+tree that run concurrently, SpecLRUK and   *)
(* SpecEHT for the replacer and the hash table used on their own,          *)
(* SpecBPMData for the buffer pool with page bytes, SpecTreeScan for scans *)
(* of the B+tree from a key); the variables of the other subsystems stay   *)
(* at their initial values.                                                *)
(***************************************************************************)
EXTENDS Integers, Sequences, FiniteSets, TLC

VARIABLES
  \* ---- lock manager ----
  table_lock_map_,   \* oid -> [request_queue_, upgrading_]
  row_lock_map_,     \* rid -> [request_queue_, upgrading_]
  txn_state,         \* Transaction::state_
  isolation_level,   \* Transaction::isolation_level_
  table_lock_set,    \* the five table lock sets of each transaction
  row_lock_set,      \* the S and X row lock sets of each transaction, by table
  lm_pc,             \* where each transaction's thread is: idle, or in cv_.wait
  lm_notified,       \* a notify_all reached the waiting thread and it has not run yet
  abort_reason,      \* reason of the last TransactionAbortException thrown to the transaction
  arrival,           \* history: per queue, the transactions in order of enqueueing
  \* ---- buffer pool ----
  pages_,            \* frame -> [page_id_, pin_count_, is_dirty_, data_]
  free_list_,        \* std::list<int>
  next_page_id_,     \* next id AllocatePage returns
  replacer_,         \* the LRUKReplacer object
  page_table_,       \* the ExtendibleHashTable<page_id_t, frame_id_t> object
  disk_written,      \* the page ids DiskManager::WritePage was called for
  disk_pages,        \* page id -> the bytes the disk holds for it (0: never written, zeros)
  bpm_ret,           \* the last buffer pool call and what it returned
  pin_balance,       \* history: per frame, successful new/fetch minus successful unpin since load
  \* ---- B+tree ----
  root_page_id_,     \* BPlusTree::root_page_id_
  tree_pages,        \* page id -> the B+tree page the buffer pool holds under that id
  tree_next_page_id, \* the id the next NewPage of the tree receives
  tree_fault,        \* why a call of the tree never returned, or "none"
  tree_ret,          \* the last call of the tree and what it returned
  tree_kv,           \* history: key -> value of its last successful Insert, 0 once removed
  header_record,     \* the root page id the header page records for index_name_, or NoRecord
  \* ---- B+tree, concurrent calls ----
  thr,               \* thread -> the call it runs, where it is, and the latches it holds
  \* ---- the replacer and the hash table on their own ----
  access_log,        \* history: the frames of the accesses the replacer was told and still tracks
  kv_hist,           \* history: key -> value of its last insert, -1 once removed
  page_hist          \* history: page id -> the bytes of its last unpin with is_dirty = true,
                     \* -1 when there is none or the page was written since

lm_vars == <<table_lock_map_, row_lock_map_, txn_state, isolation_level, table_lock_set,
             row_lock_set, lm_pc, lm_notified, abort_reason, arrival>>

bpm_vars == <<pages_, free_list_, next_page_id_, replacer_, page_table_, disk_written, disk_pages, bpm_ret,
              pin_balance>>

tree_vars == <<root_page_id_, tree_pages, tree_next_page_id, tree_fault, tree_ret, tree_kv,
               header_record>>

latch_vars == <<thr>>

unit_vars == <<access_log, kv_hist, page_hist>>

vars == <<lm_vars, bpm_vars, tree_vars, latch_vars, unit_vars>>

\* ------------------------------------------------------------------------
\* Generic helpers
\* ------------------------------------------------------------------------
Last(s) == s[Len(s)]

SeqRemoveAt(s, i) == SubSeq(s, 1, i - 1) \o SubSeq(s, i + 1, Len(s))

SeqInsertAt(s, i, e) == SubSeq(s, 1, i - 1) \o <<e>> \o SubSeq(s, i, Len(s))

SetMin(S) == CHOOSE x \in S : \A y \in S : x <= y

SeqWithout(s, e) == SelectSeq(s, LAMBDA x : x # e)

\* ========================================================================
\* LOCK MANAGER
\* ========================================================================
NumTxns == 2
NumTables == 1
NumRows == 1

\* The transactions, tables and rows of a run are those its initial state sets up.
Txns == DOMAIN isolation_level
Tables == {q[2] : q \in {x \in DOMAIN arrival : x[1] = "table"}}
Rows == {q[2] : q \in {x \in DOMAIN arrival : x[1] = "row"}}

INVALID_TXN_ID == -1

Modes == {"S", "X", "IS", "IX", "SIX"}
IsoLevels == {"READ_UNCOMMITTED", "READ_COMMITTED", "REPEATABLE_READ"}

EmptyQueue == [request_queue_ |-> <<>>, upgrading_ |-> INVALID_TXN_ID]

Idle == [at |-> "idle", kind |-> "none", key |-> 0]

\* LockRequest(txn_id, lock_mode, oid[, rid]); granted_ starts false.  upgrade_ tells whether
\* the request is the upgrade_lock_request of the upgrade path or the lock_request of the
\* plain path.
LockRequest(t, mode, oid, rid, up) ==
  [txn_id_ |-> t, lock_mode_ |-> mode, oid_ |-> oid, rid_ |-> rid, granted_ |-> FALSE, upgrade_ |-> up]

\* The switch of GrantLock: a granted request of mode held forbids granting mode.
Blocks_AllowSWithIX(mode, held) ==
  CASE mode = "S" -> held \in {"SIX", "X"}
    [] mode = "X" -> TRUE
    [] mode = "IS" -> held = "X"
    [] mode = "IX" -> held \in {"S", "SIX", "X"}
    [] mode = "SIX" -> held # "IS"

Blocks(mode, held) ==
  CASE mode = "S" -> held \in {"IX", "SIX", "X"}
    [] mode = "X" -> TRUE
    [] mode = "IS" -> held = "X"
    [] mode = "IX" -> held \in {"S", "SIX", "X"}
    [] mode = "SIX" -> held # "IS"

RECURSIVE GrantLockFrom(_, _, _)
GrantLockFrom(lock_request, q, i) ==
  IF i > Len(q) THEN FALSE
  ELSE IF q[i].granted_
       THEN IF Blocks(lock_request.lock_mode_, q[i].lock_mode_)
            THEN FALSE
            ELSE GrantLockFrom(lock_request, q, i + 1)
       ELSE q[i] = lock_request

\* A mutant of GrantLock: ungranted requests ahead of the request are skipped.
RECURSIVE GrantLockFrom_SkipWaiters(_, _, _)
GrantLockFrom_SkipWaiters(lock_request, q, i) ==
  IF i > Len(q) THEN FALSE
  ELSE IF q[i].granted_
       THEN IF Blocks(lock_request.lock_mode_, q[i].lock_mode_)
            THEN FALSE
            ELSE GrantLockFrom_SkipWaiters(lock_request, q, i + 1)
       ELSE IF q[i] = lock_request THEN TRUE
            ELSE GrantLockFrom_SkipWaiters(lock_request, q, i + 1)

GrantLock_SkipWaiters(lock_request, q) == GrantLockFrom_SkipWaiters(lock_request, q, 1)

GrantLock(lock_request, q) == GrantLockFrom(lock_request, q, 1)

\* The isolation-level checks at the head of LockTable and LockRow.
IsolationCheck_NoShrinkCheckRC(t, mode) ==
  IF isolation_level[t] = "READ_UNCOMMITTED" /\ mode \in {"S", "IS", "SIX"}
  THEN "LOCK_SHARED_ON_READ_UNCOMMITTED"
  ELSE IF isolation_level[t] = "READ_UNCOMMITTED" /\ txn_state[t] = "SHRINKING"
          /\ mode \in {"X", "IX"}
  THEN "LOCK_ON_SHRINKING"
  ELSE IF isolation_level[t] = "REPEATABLE_READ" /\ txn_state[t] = "SHRINKING"
  THEN "LOCK_ON_SHRINKING"
  ELSE "OK"

\* A mutant of IsolationCheck: READ_UNCOMMITTED lets a SIX request through.
IsolationCheck_SixUnderRU(t, mode) ==
  IF isolation_level[t] = "READ_UNCOMMITTED" /\ mode \in {"S", "IS"}
  THEN "LOCK_SHARED_ON_READ_UNCOMMITTED"
  ELSE IF isolation_level[t] = "READ_UNCOMMITTED" /\ txn_state[t] = "SHRINKING"
          /\ mode \in {"X", "IX"}
  THEN "LOCK_ON_SHRINKING"
  ELSE IF isolation_level[t] = "READ_COMMITTED" /\ txn_state[t] = "SHRINKING"
          /\ mode # "IS" /\ mode # "S"
  THEN "LOCK_ON_SHRINKING"
  ELSE IF isolation_level[t] = "REPEATABLE_READ" /\ txn_state[t] = "SHRINKING"
  THEN "LOCK_ON_SHRINKING"
  ELSE "OK"

IsolationCheck(t, mode) ==
  IF isolation_level[t] = "READ_UNCOMMITTED" /\ mode \in {"S", "IS", "SIX"}
  THEN "LOCK_SHARED_ON_READ_UNCOMMITTED"
  ELSE IF isolation_level[t] = "READ_UNCOMMITTED" /\ txn_state[t] = "SHRINKING"
          /\ mode \in {"X", "IX"}
  THEN "LOCK_ON_SHRINKING"
  ELSE IF isolation_level[t] = "READ_COMMITTED" /\ txn_state[t] = "SHRINKING"
          /\ mode # "IS" /\ mode # "S"
  THEN "LOCK_ON_SHRINKING"
  ELSE IF isolation_level[t] = "REPEATABLE_READ" /\ txn_state[t] = "SHRINKING"
  THEN "LOCK_ON_SHRINKING"
  ELSE "OK"

\* A mutant of CanUpgrade: S -> IX is let through as well.
CanUpgrade_SToIX(held, mode) ==
  \/ held = "IS" /\ mode \in {"S", "X", "IX", "SIX"}
  \/ held = "S" /\ mode \in {"X", "IX", "SIX"}
  \/ held = "IX" /\ mode \in {"X", "SIX"}
  \/ held = "SIX" /\ mode = "X"

\* The permitted upgrades: IS -> [S, X, IX, SIX], S -> [X, SIX], IX -> [X, SIX], SIX -> [X].
CanUpgrade(held, mode) ==
  \/ held = "IS" /\ mode \in {"S", "X", "IX", "SIX"}
  \/ held = "S" /\ mode \in {"X", "SIX"}
  \/ held = "IX" /\ mode \in {"X", "SIX"}
  \/ held = "SIX" /\ mode = "X"

\* A mutant of FirstUngranted: the end of the queue.
FirstUngranted_End(q) == Len(q) + 1

FirstUngranted(q) ==
  IF \E i \in 1..Len(q) : ~q[i].granted_
  THEN SetMin({i \in 1..Len(q) : ~q[i].granted_})
  ELSE Len(q) + 1

\* granted_ = true; the request is no longer a pending upgrade.
GrantIn(q, req) ==
  [i \in 1..Len(q) |-> IF q[i] = req THEN [q[i] EXCEPT !.granted_ = TRUE, !.upgrade_ = FALSE]
                        ELSE q[i]]

\* A mutant of Acquire: the upgrade-in-flight check is missing.
Acquire_NoUpgradeConflict(t, mode, oid, rid, lrq) ==
  LET q == lrq.request_queue_
      mine == {i \in 1..Len(q) : q[i].txn_id_ = t}
  IN IF mine # {}
     THEN LET i == SetMin(mine)
              request == q[i]
          IN IF request.lock_mode_ = mode
             THEN [outcome |-> "same", lrq |-> lrq, old |-> <<>>, new |-> <<>>]
             ELSE IF ~CanUpgrade(request.lock_mode_, mode)
             THEN [outcome |-> "INCOMPATIBLE_UPGRADE", lrq |-> lrq, old |-> <<>>, new |-> <<>>]
             ELSE LET q1 == SeqRemoveAt(q, i)
                      up == LockRequest(t, mode, oid, rid, TRUE)
                      q2 == SeqInsertAt(q1, FirstUngranted(q1), up)
                  IN IF GrantLock(up, q2)
                     THEN [outcome |-> "granted",
                           lrq |-> [request_queue_ |-> GrantIn(q2, up), upgrading_ |-> INVALID_TXN_ID],
                           old |-> <<request>>, new |-> <<up>>]
                     ELSE [outcome |-> "wait",
                           lrq |-> [request_queue_ |-> q2, upgrading_ |-> t],
                           old |-> <<request>>, new |-> <<up>>]
     ELSE LET lock_request == LockRequest(t, mode, oid, rid, FALSE)
              q2 == Append(q, lock_request)
          IN IF GrantLock(lock_request, q2)
             THEN [outcome |-> "granted",
                   lrq |-> [lrq EXCEPT !.request_queue_ = GrantIn(q2, lock_request)],
                   old |-> <<>>, new |-> <<lock_request>>]
             ELSE [outcome |-> "wait",
                   lrq |-> [lrq EXCEPT !.request_queue_ = q2],
                   old |-> <<>>, new |-> <<lock_request>>]

\* The queue part of LockTable / LockRow, from the scan of the queue to the first call of
\* GrantLock: the outcome, the queue afterwards, the request removed by an upgrade (old) and
\* the request enqueued (new).
Acquire(t, mode, oid, rid, lrq) ==
  LET q == lrq.request_queue_
      mine == {i \in 1..Len(q) : q[i].txn_id_ = t}
  IN IF mine # {}
     THEN LET i == SetMin(mine)
              request == q[i]
          IN IF request.lock_mode_ = mode
             THEN [outcome |-> "same", lrq |-> lrq, old |-> <<>>, new |-> <<>>]
             ELSE IF lrq.upgrading_ # INVALID_TXN_ID
             THEN [outcome |-> "UPGRADE_CONFLICT", lrq |-> lrq, old |-> <<>>, new |-> <<>>]
             ELSE IF ~CanUpgrade(request.lock_mode_, mode)
             THEN [outcome |-> "INCOMPATIBLE_UPGRADE", lrq |-> lrq, old |-> <<>>, new |-> <<>>]
             ELSE LET q1 == SeqRemoveAt(q, i)
                      up == LockRequest(t, mode, oid, rid, TRUE)
                      q2 == SeqInsertAt(q1, FirstUngranted(q1), up)
                  IN IF GrantLock(up, q2)
                     THEN [outcome |-> "granted",
                           lrq |-> [request_queue_ |-> GrantIn(q2, up), upgrading_ |-> INVALID_TXN_ID],
                           old |-> <<request>>, new |-> <<up>>]
                     ELSE [outcome |-> "wait",
                           lrq |-> [request_queue_ |-> q2, upgrading_ |-> t],
                           old |-> <<request>>, new |-> <<up>>]
     ELSE LET lock_request == LockRequest(t, mode, oid, rid, FALSE)
              q2 == Append(q, lock_request)
          IN IF GrantLock(lock_request, q2)
             THEN [outcome |-> "granted",
                   lrq |-> [lrq EXCEPT !.request_queue_ = GrantIn(q2, lock_request)],
                   old |-> <<>>, new |-> <<lock_request>>]
             ELSE [outcome |-> "wait",
                   lrq |-> [lrq EXCEPT !.request_queue_ = q2],
                   old |-> <<>>, new |-> <<lock_request>>]

AbortOutcomes == {"UPGRADE_CONFLICT", "INCOMPATIBLE_UPGRADE"}

\* InsertOrDeleteTableLockSet over a sequence of at most one request.
\* A mutant of TableSetDelete: the transaction's lock set keeps the table.
TableSetDelete_Keep(ls, reqs) == ls

TableSetDelete(ls, reqs) ==
  IF reqs = <<>> THEN ls
  ELSE [ls EXCEPT ![reqs[1].lock_mode_] = @ \ {reqs[1].oid_}]

TableSetInsert(ls, reqs) ==
  IF reqs = <<>> THEN ls
  ELSE [ls EXCEPT ![reqs[1].lock_mode_] = @ \cup {reqs[1].oid_}]

\* InsertOrDeleteRowLockSet: only S and X requests touch the row lock sets.
RowSetDelete(ls, reqs) ==
  IF reqs = <<>> \/ reqs[1].lock_mode_ \notin {"S", "X"} THEN ls
  ELSE [ls EXCEPT ![reqs[1].lock_mode_][reqs[1].oid_] = @ \ {reqs[1].rid_}]

RowSetInsert(ls, reqs) ==
  IF reqs = <<>> \/ reqs[1].lock_mode_ \notin {"S", "X"} THEN ls
  ELSE [ls EXCEPT ![reqs[1].lock_mode_][reqs[1].oid_] = @ \cup {reqs[1].rid_}]

\* A mutant of NotifyAll: nobody is woken.
NotifyAll_Nobody(flags, kind, key) == flags

\* cv_.notify_all() of the queue (kind, key): every thread waiting there is woken.
NotifyAll(flags, kind, key) ==
  [u \in Txns |-> IF lm_pc[u].at = "wait" /\ lm_pc[u].kind = kind /\ lm_pc[u].key = key
                  THEN TRUE ELSE flags[u]]

Enqueued(arr, qid, t) == [arr EXCEPT ![qid] = Append(SeqWithout(@, t), t)]

Dequeued(arr, qid, t) == [arr EXCEPT ![qid] = SeqWithout(@, t)]

\* The callers of the lock manager: a transaction asks for locks while GROWING or SHRINKING;
\* once ABORTED it only releases what it holds (the caller unwinds).
MayLock(t) == lm_pc[t].at = "idle" /\ txn_state[t] \in {"GROWING", "SHRINKING"}

\* txn->SetState(ABORTED); throw TransactionAbortException(txn_id, reason): nothing else changes.
ThrowAbort(t, reason) ==
  /\ txn_state' = [txn_state EXCEPT ![t] = "ABORTED"]
  /\ abort_reason' = [abort_reason EXCEPT ![t] = reason]
  /\ UNCHANGED <<table_lock_map_, row_lock_map_, isolation_level, table_lock_set,
                 row_lock_set, lm_pc, lm_notified, arrival>>

\* What follows Acquire in LockTable and LockRow for the transaction and the threads: an abort
\* thrown from the queue scan, the start of the wait, or the notify_all after a grant.
AfterAcquire(t, mode, r, kind, key) ==
  /\ txn_state' = IF r.outcome \in AbortOutcomes
                  THEN [txn_state EXCEPT ![t] = "ABORTED"] ELSE txn_state
  /\ abort_reason' = IF r.outcome \in AbortOutcomes
                     THEN [abort_reason EXCEPT ![t] = r.outcome] ELSE abort_reason
  /\ lm_pc' = IF r.outcome = "wait"
              THEN [lm_pc EXCEPT ![t] = [at |-> "wait", kind |-> kind, key |-> key]]
              ELSE lm_pc
  /\ lm_notified' = IF r.outcome = "granted" /\ mode # "X"
                    THEN NotifyAll(lm_notified, kind, key)
                    ELSE lm_notified
  /\ arrival' = IF r.new # <<>> THEN Enqueued(arrival, <<kind, key>>, t) ELSE arrival

LockTable(t, mode, oid) ==
  /\ MayLock(t)
  /\ IF IsolationCheck(t, mode) # "OK"
     THEN ThrowAbort(t, IsolationCheck(t, mode))
     ELSE LET lrq == IF oid \in DOMAIN table_lock_map_ THEN table_lock_map_[oid] ELSE EmptyQueue
              r == Acquire(t, mode, oid, 0, lrq)
          IN /\ table_lock_map_' = [k \in DOMAIN table_lock_map_ \cup {oid} |->
                                      IF k = oid THEN r.lrq ELSE table_lock_map_[k]]
             /\ table_lock_set' =
                  [table_lock_set EXCEPT ![t] =
                     IF r.outcome = "granted" THEN TableSetInsert(TableSetDelete(@, r.old), r.new)
                     ELSE TableSetDelete(@, r.old)]
             /\ AfterAcquire(t, mode, r, "table", oid)
             /\ UNCHANGED <<row_lock_map_, isolation_level, row_lock_set>>

\* A mutant of ShrinkOnUnlock: releasing S shrinks under READ_COMMITTED too.
ShrinkOnUnlock_SharedUnderRC(t, mode) ==
  IF /\ \/ isolation_level[t] = "REPEATABLE_READ" /\ mode \in {"S", "X"}
        \/ isolation_level[t] = "READ_COMMITTED" /\ mode \in {"S", "X"}
        \/ isolation_level[t] = "READ_UNCOMMITTED" /\ mode = "X"
     /\ txn_state[t] # "COMMITTED" /\ txn_state[t] # "ABORTED"
  THEN "SHRINKING"
  ELSE txn_state[t]

\* The state change of a successful unlock.
ShrinkOnUnlock(t, mode) ==
  IF /\ \/ isolation_level[t] = "REPEATABLE_READ" /\ mode \in {"S", "X"}
        \/ isolation_level[t] = "READ_COMMITTED" /\ mode = "X"
        \/ isolation_level[t] = "READ_UNCOMMITTED" /\ mode = "X"
     /\ txn_state[t] # "COMMITTED" /\ txn_state[t] # "ABORTED"
  THEN "SHRINKING"
  ELSE txn_state[t]

HeldIndex(q, t) == {i \in 1..Len(q) : q[i].txn_id_ = t /\ q[i].granted_}

\* A mutant of UnlockTable: the row locks still held on the table are not looked at.
UnlockTable_NoRowCheck(t, oid) ==
  /\ lm_pc[t].at = "idle"
  /\ IF oid \notin DOMAIN table_lock_map_
     THEN ThrowAbort(t, "ATTEMPTED_UNLOCK_BUT_NO_LOCK_HELD")
     ELSE LET q == table_lock_map_[oid].request_queue_
          IN IF HeldIndex(q, t) # {}
             THEN LET i == SetMin(HeldIndex(q, t))
                      lock_request == q[i]
                  IN /\ table_lock_map_' =
                          [table_lock_map_ EXCEPT ![oid].request_queue_ = SeqRemoveAt(q, i)]
                     /\ lm_notified' = NotifyAll(lm_notified, "table", oid)
                     /\ txn_state' = [txn_state EXCEPT ![t] = ShrinkOnUnlock(t, lock_request.lock_mode_)]
                     /\ table_lock_set' =
                          [table_lock_set EXCEPT ![t] = TableSetDelete(@, <<lock_request>>)]
                     /\ arrival' = Dequeued(arrival, <<"table", oid>>, t)
                     /\ UNCHANGED <<row_lock_map_, isolation_level, row_lock_set, lm_pc,
                                    abort_reason>>
             ELSE ThrowAbort(t, "ATTEMPTED_UNLOCK_BUT_NO_LOCK_HELD")

UnlockTable(t, oid) ==
  /\ lm_pc[t].at = "idle"
  /\ IF oid \notin DOMAIN table_lock_map_
     THEN ThrowAbort(t, "ATTEMPTED_UNLOCK_BUT_NO_LOCK_HELD")
     ELSE IF row_lock_set[t]["S"][oid] # {} \/ row_lock_set[t]["X"][oid] # {}
     THEN ThrowAbort(t, "TABLE_UNLOCKED_BEFORE_UNLOCKING_ROWS")
     ELSE LET q == table_lock_map_[oid].request_queue_
          IN IF HeldIndex(q, t) # {}
             THEN LET i == SetMin(HeldIndex(q, t))
                      lock_request == q[i]
                  IN /\ table_lock_map_' =
                          [table_lock_map_ EXCEPT ![oid].request_queue_ = SeqRemoveAt(q, i)]
                     /\ lm_notified' = NotifyAll(lm_notified, "table", oid)
                     /\ txn_state' = [txn_state EXCEPT ![t] = ShrinkOnUnlock(t, lock_request.lock_mode_)]
                     /\ table_lock_set' =
                          [table_lock_set EXCEPT ![t] = TableSetDelete(@, <<lock_request>>)]
                     /\ arrival' = Dequeued(arrival, <<"table", oid>>, t)
                     /\ UNCHANGED <<row_lock_map_, isolation_level, row_lock_set, lm_pc,
                                    abort_reason>>
             ELSE ThrowAbort(t, "ATTEMPTED_UNLOCK_BUT_NO_LOCK_HELD")

\* A mutant of RowCheck: a shared table lock is enough for an exclusive row lock.
RowCheck_SharedTableSuffices(t, mode, oid) ==
  IF mode \in {"IX", "IS", "SIX"} THEN "ATTEMPTED_INTENTION_LOCK_ON_ROW"
  ELSE IF IsolationCheck(t, mode) # "OK" THEN IsolationCheck(t, mode)
  ELSE IF mode = "X" /\ oid \notin table_lock_set[t]["X"] /\ oid \notin table_lock_set[t]["IX"]
          /\ oid \notin table_lock_set[t]["SIX"] /\ oid \notin table_lock_set[t]["S"]
  THEN "TABLE_LOCK_NOT_PRESENT"
  ELSE "OK"

\* The checks of LockRow that precede the queue.
RowCheck(t, mode, oid) ==
  IF mode \in {"IX", "IS", "SIX"} THEN "ATTEMPTED_INTENTION_LOCK_ON_ROW"
  ELSE IF IsolationCheck(t, mode) # "OK" THEN IsolationCheck(t, mode)
  ELSE IF mode = "X" /\ oid \notin table_lock_set[t]["X"] /\ oid \notin table_lock_set[t]["IX"]
          /\ oid \notin table_lock_set[t]["SIX"]
  THEN "TABLE_LOCK_NOT_PRESENT"
  ELSE "OK"

LockRow(t, mode, oid, rid) ==
  /\ MayLock(t)
  /\ IF RowCheck(t, mode, oid) # "OK"
     THEN ThrowAbort(t, RowCheck(t, mode, oid))
     ELSE LET lrq == IF rid \in DOMAIN row_lock_map_ THEN row_lock_map_[rid] ELSE EmptyQueue
              r == Acquire(t, mode, oid, rid, lrq)
          IN /\ row_lock_map_' = [k \in DOMAIN row_lock_map_ \cup {rid} |->
                                    IF k = rid THEN r.lrq ELSE row_lock_map_[k]]
             /\ row_lock_set' =
                  [row_lock_set EXCEPT ![t] =
                     IF r.outcome = "granted" THEN RowSetInsert(RowSetDelete(@, r.old), r.new)
                     ELSE RowSetDelete(@, r.old)]
             /\ AfterAcquire(t, mode, r, "row", rid)
             /\ UNCHANGED <<table_lock_map_, isolation_level, table_lock_set>>

UnlockRow(t, oid, rid) ==
  /\ lm_pc[t].at = "idle"
  /\ IF rid \notin DOMAIN row_lock_map_
     THEN ThrowAbort(t, "ATTEMPTED_UNLOCK_BUT_NO_LOCK_HELD")
     ELSE LET q == row_lock_map_[rid].request_queue_
          IN IF HeldIndex(q, t) # {}
             THEN LET i == SetMin(HeldIndex(q, t))
                      lock_request == q[i]
                  IN /\ row_lock_map_' =
                          [row_lock_map_ EXCEPT ![rid].request_queue_ = SeqRemoveAt(q, i)]
                     /\ lm_notified' = NotifyAll(lm_notified, "row", rid)
                     /\ txn_state' = [txn_state EXCEPT ![t] = ShrinkOnUnlock(t, lock_request.lock_mode_)]
                     /\ row_lock_set' =
                          [row_lock_set EXCEPT ![t] = RowSetDelete(@, <<lock_request>>)]
                     /\ arrival' = Dequeued(arrival, <<"row", rid>>, t)
                     /\ UNCHANGED <<table_lock_map_, isolation_level, table_lock_set, lm_pc,
                                    abort_reason>>
             ELSE ThrowAbort(t, "ATTEMPTED_UNLOCK_BUT_NO_LOCK_HELD")

\* The queue a waiting thread is blocked on, and its request there.
WaitingQueue(t) ==
  IF lm_pc[t].kind = "table" THEN table_lock_map_[lm_pc[t].key] ELSE row_lock_map_[lm_pc[t].key]

WaitingRequest(t) ==
  LET q == WaitingQueue(t).request_queue_
  IN q[SetMin({i \in 1..Len(q) : q[i].txn_id_ = t /\ ~q[i].granted_})]

\* A mutant of WaitLoop: an aborted upgrader leaves upgrading_ set.
WaitLoop_KeepUpgrading(t) ==
  /\ lm_pc[t].at = "wait"
  /\ LET kind == lm_pc[t].kind
         key == lm_pc[t].key
         lrq == WaitingQueue(t)
         q == lrq.request_queue_
         req == WaitingRequest(t)
         aborted == txn_state[t] = "ABORTED"
         granted == ~aborted /\ GrantLock(req, q)
         lrq2 == IF aborted
                 THEN [request_queue_ |-> SeqWithout(q, req), upgrading_ |-> lrq.upgrading_]
                 ELSE IF granted
                 THEN [request_queue_ |-> GrantIn(q, req),
                       upgrading_ |-> IF req.upgrade_ THEN INVALID_TXN_ID ELSE lrq.upgrading_]
                 ELSE lrq
         flags == [lm_notified EXCEPT ![t] = FALSE]
     IN /\ IF kind = "table"
           THEN /\ table_lock_map_' = [table_lock_map_ EXCEPT ![key] = lrq2]
                /\ table_lock_set' = IF granted
                                     THEN [table_lock_set EXCEPT ![t] = TableSetInsert(@, <<req>>)]
                                     ELSE table_lock_set
                /\ UNCHANGED <<row_lock_map_, row_lock_set>>
           ELSE /\ row_lock_map_' = [row_lock_map_ EXCEPT ![key] = lrq2]
                /\ row_lock_set' = IF granted
                                   THEN [row_lock_set EXCEPT ![t] = RowSetInsert(@, <<req>>)]
                                   ELSE row_lock_set
                /\ UNCHANGED <<table_lock_map_, table_lock_set>>
        /\ lm_pc' = IF aborted \/ granted THEN [lm_pc EXCEPT ![t] = Idle] ELSE lm_pc
        /\ lm_notified' =
             IF aborted \/ (granted /\ req.lock_mode_ # "X")
             THEN [u \in Txns |-> IF u # t /\ lm_pc[u].at = "wait" /\ lm_pc[u].kind = kind
                                      /\ lm_pc[u].key = key
                                  THEN TRUE ELSE flags[u]]
             ELSE flags
        /\ arrival' = IF aborted THEN Dequeued(arrival, <<kind, key>>, t) ELSE arrival
        /\ UNCHANGED <<txn_state, isolation_level, abort_reason>>

\* One turn of the wait loop of LockTable / LockRow: cv_.wait returns (after a notify_all, or
\* spuriously), then the ABORTED check, then the loop condition GrantLock.
WaitLoop(t) ==
  /\ lm_pc[t].at = "wait"
  /\ LET kind == lm_pc[t].kind
         key == lm_pc[t].key
         lrq == WaitingQueue(t)
         q == lrq.request_queue_
         req == WaitingRequest(t)
         aborted == txn_state[t] = "ABORTED"
         granted == ~aborted /\ GrantLock(req, q)
         lrq2 == IF aborted
                 THEN [request_queue_ |-> SeqWithout(q, req),
                       upgrading_ |-> IF req.upgrade_ THEN INVALID_TXN_ID ELSE lrq.upgrading_]
                 ELSE IF granted
                 THEN [request_queue_ |-> GrantIn(q, req),
                       upgrading_ |-> IF req.upgrade_ THEN INVALID_TXN_ID ELSE lrq.upgrading_]
                 ELSE lrq
         flags == [lm_notified EXCEPT ![t] = FALSE]
     IN /\ IF kind = "table"
           THEN /\ table_lock_map_' = [table_lock_map_ EXCEPT ![key] = lrq2]
                /\ table_lock_set' = IF granted
                                     THEN [table_lock_set EXCEPT ![t] = TableSetInsert(@, <<req>>)]
                                     ELSE table_lock_set
                /\ UNCHANGED <<row_lock_map_, row_lock_set>>
           ELSE /\ row_lock_map_' = [row_lock_map_ EXCEPT ![key] = lrq2]
                /\ row_lock_set' = IF granted
                                   THEN [row_lock_set EXCEPT ![t] = RowSetInsert(@, <<req>>)]
                                   ELSE row_lock_set
                /\ UNCHANGED <<table_lock_map_, table_lock_set>>
        /\ lm_pc' = IF aborted \/ granted THEN [lm_pc EXCEPT ![t] = Idle] ELSE lm_pc
        /\ lm_notified' =
             IF aborted \/ (granted /\ req.lock_mode_ # "X")
             THEN [u \in Txns |-> IF u # t /\ lm_pc[u].at = "wait" /\ lm_pc[u].kind = kind
                                      /\ lm_pc[u].key = key
                                  THEN TRUE ELSE flags[u]]
             ELSE flags
        /\ arrival' = IF aborted THEN Dequeued(arrival, <<kind, key>>, t) ELSE arrival
        /\ UNCHANGED <<txn_state, isolation_level, abort_reason>>

\* The external abort source: the state of a blocked transaction is set to ABORTED and the
\* queue it waits in is notified.
SetAborted(t) ==
  /\ lm_pc[t].at = "wait"
  /\ txn_state[t] # "ABORTED"
  /\ txn_state' = [txn_state EXCEPT ![t] = "ABORTED"]
  /\ lm_notified' = NotifyAll(lm_notified, lm_pc[t].kind, lm_pc[t].key)
  /\ UNCHANGED <<table_lock_map_, row_lock_map_, isolation_level, table_lock_set, row_lock_set,
                 lm_pc, abort_reason, arrival>>

\* The transaction manager commits a transaction that is not blocked: the state becomes
\* COMMITTED, and the locks it holds are released afterwards through UnlockRow / UnlockTable.
SetCommitted(t) ==
  /\ lm_pc[t].at = "idle"
  /\ txn_state[t] \in {"GROWING", "SHRINKING"}
  /\ txn_state' = [txn_state EXCEPT ![t] = "COMMITTED"]
  /\ UNCHANGED <<table_lock_map_, row_lock_map_, isolation_level, table_lock_set, row_lock_set,
                 lm_pc, lm_notified, abort_reason, arrival>>

\* Transactions are interchangeable but for their isolation level: the initial states take
\* one assignment of levels per multiset of levels.
IsoRank(l) == CASE l = "READ_UNCOMMITTED" -> 1 [] l = "READ_COMMITTED" -> 2 [] OTHER -> 3

InitLMWith(txns, tables, rows) ==
  /\ table_lock_map_ = << >>
  /\ row_lock_map_ = << >>
  /\ txn_state = [t \in txns |-> "GROWING"]
  /\ isolation_level \in {f \in [txns -> IsoLevels] :
                            \A a, b \in txns : a < b => IsoRank(f[a]) <= IsoRank(f[b])}
  /\ table_lock_set = [t \in txns |-> [m \in Modes |-> {}]]
  /\ row_lock_set = [t \in txns |-> [m \in {"S", "X"} |-> [o \in tables |-> {}]]]
  /\ lm_pc = [t \in txns |-> Idle]
  /\ lm_notified = [t \in txns |-> FALSE]
  /\ abort_reason = [t \in txns |-> "NONE"]
  /\ arrival = [qid \in ({"table"} \X tables) \cup ({"row"} \X rows) |-> <<>>]

\* ========================================================================
\* BUFFER POOL: extendible hash table, LRU-K replacer, buffer pool manager
\* ========================================================================
PoolSize == 2      \* pool_size
ReplacerK == 2     \* replacer_k
BucketSize == 2    \* bucket_size_ of the page table
MaxPages == 3      \* AllocatePage hands out the page ids 0 .. MaxPages - 1
MaxPin == 2        \* a page is pinned at most MaxPin times at once

INVALID_PAGE_ID == -1

Frames == 0..(PoolSize - 1)
PageIds == 0..(MaxPages - 1)

RECURSIVE Pow2(_)
Pow2(n) == IF n = 0 THEN 1 ELSE 2 * Pow2(n - 1)

\* ---- ExtendibleHashTable<page_id_t, frame_id_t> ----
\* dir_ is a sequence (slot i of the code is dir_[i + 1]) of indices into buckets.
NewHashTable ==
  [global_depth_ |-> 0, dir_ |-> <<1>>, buckets |-> <<[depth_ |-> 0, list_ |-> <<>>]>>]

\* std::hash<int> is the identity; key & mask.
IndexOf(ht, key) == key % Pow2(ht.global_depth_)

BucketOf(ht, key) == ht.buckets[ht.dir_[IndexOf(ht, key) + 1]]

KeyPositions(list, key) == {i \in 1..Len(list) : list[i][1] = key}

\* Bucket::Find through ExtendibleHashTable::Find.
Find(ht, key) ==
  LET list == BucketOf(ht, key).list_
  IN IF KeyPositions(list, key) = {} THEN [found |-> FALSE, value |-> 0]
     ELSE [found |-> TRUE, value |-> list[SetMin(KeyPositions(list, key))][2]]

\* A mutant of HashRemove: the entry stays.
HashRemove_Keep(ht, key) == ht

\* Bucket::Remove through ExtendibleHashTable::Remove.
HashRemove(ht, key) ==
  LET b == ht.dir_[IndexOf(ht, key) + 1]
      list == ht.buckets[b].list_
  IN IF KeyPositions(list, key) = {} THEN ht
     ELSE [ht EXCEPT !.buckets[b].list_ = SeqRemoveAt(list, SetMin(KeyPositions(list, key)))]

\* A mutant of BucketInsert: a key the bucket has is appended again.
BucketInsert_NoOverwrite(list, key, value) ==
  IF Len(list) >= BucketSize
  THEN [ok |-> FALSE, list |-> list]
  ELSE [ok |-> TRUE, list |-> Append(list, <<key, value>>)]

\* Bucket::Insert: the list afterwards, or the list unchanged and ok = FALSE when full.
BucketInsert(list, key, value) ==
  IF KeyPositions(list, key) # {}
  THEN [ok |-> TRUE, list |-> [list EXCEPT ![SetMin(KeyPositions(list, key))] = <<key, value>>]]
  ELSE IF Len(list) >= BucketSize
  THEN [ok |-> FALSE, list |-> list]
  ELSE [ok |-> TRUE, list |-> Append(list, <<key, value>>)]

\* The directory doubled when the full bucket's depth equals the global depth.
Doubled(ht, b) ==
  IF ht.buckets[b].depth_ = ht.global_depth_
  THEN [ht EXCEPT !.dir_ = ht.dir_ \o ht.dir_, !.global_depth_ = @ + 1]
  ELSE ht

\* One split of the bucket of slot bucket_index (computed before the directory doubled).
SplitBucket(ht0, bucket_index) ==
  LET b == ht0.dir_[bucket_index + 1]
      ht == Doubled(ht0, b)
      bucket_depth == ht.buckets[b].depth_ + 1
      overflow == Pow2(bucket_depth - 1)
      raw_index == (IF (bucket_index \div overflow) % 2 = 1
                    THEN bucket_index - overflow ELSE bucket_index + overflow) % Pow2(bucket_depth)
      nb == Len(ht.buckets) + 1
      dir2 == [s \in 1..Len(ht.dir_) |->
                 IF (s - 1) % Pow2(bucket_depth) = raw_index THEN nb ELSE ht.dir_[s]]
      items == ht.buckets[b].list_
      moves(item) == ((item[1] % Pow2(ht.global_depth_)) \div overflow) % 2
                       # (bucket_index \div overflow) % 2
  IN [global_depth_ |-> ht.global_depth_,
      dir_ |-> dir2,
      buckets |-> Append([ht.buckets EXCEPT ![b] = [depth_ |-> bucket_depth,
                                                     list_ |-> SelectSeq(items, LAMBDA it : ~moves(it))]],
                         [depth_ |-> bucket_depth, list_ |-> SelectSeq(items, moves)])]

RECURSIVE InsertInternal(_, _, _)
InsertInternal(ht, key, value) ==
  LET bucket_index == IndexOf(ht, key)
      b == ht.dir_[bucket_index + 1]
      r == BucketInsert(ht.buckets[b].list_, key, value)
  IN IF r.ok THEN [ht EXCEPT !.buckets[b].list_ = r.list]
     ELSE InsertInternal(SplitBucket(ht, bucket_index), key, value)

\* ---- LRUKReplacer ----
\* count_map_[f] = 0 stands for "f is not in count_map_"; a count is kept up to ReplacerK, which
\* is all that the comparisons with k_ read.  curr_size_ is a size_t: the integer kept here
\* stands for its value modulo 2^64, so a negative value is a counter that wrapped around, and
\* it is zero (or equal to replacer_size_) exactly when the counter of the code is.
NewReplacer ==
  [inf_history_list_ |-> <<>>, history_list_ |-> <<>>, count_map_ |-> [f \in Frames |-> 0],
   non_evictable_set_ |-> {}, curr_size_ |-> 0]

Bump(c) == IF c >= ReplacerK THEN ReplacerK ELSE c + 1

InList(list, f) == \E i \in 1..Len(list) : list[i] = f

\* The first frame of a list that is not in non_evictable_set_ (0 when there is none).
FirstEvictable(list, pinned) ==
  IF \E i \in 1..Len(list) : list[i] \notin pinned
  THEN SetMin({i \in 1..Len(list) : list[i] \notin pinned})
  ELSE 0

\* A mutant of Evict: non_evictable_set_ is not consulted.
Evict_IgnoreNonEvictable(r) ==
  IF r.inf_history_list_ # <<>>
  THEN [ok |-> TRUE, frame_id |-> r.inf_history_list_[1],
        r |-> [r EXCEPT !.count_map_[r.inf_history_list_[1]] = 0,
                        !.inf_history_list_ = Tail(@), !.curr_size_ = @ - 1]]
  ELSE IF r.history_list_ # <<>>
  THEN [ok |-> TRUE, frame_id |-> r.history_list_[1],
        r |-> [r EXCEPT !.count_map_[r.history_list_[1]] = 0,
                        !.history_list_ = Tail(@), !.curr_size_ = @ - 1]]
  ELSE [ok |-> FALSE, frame_id |-> 0, r |-> r]

Evict(r) ==
  LET i == FirstEvictable(r.inf_history_list_, r.non_evictable_set_)
      j == FirstEvictable(r.history_list_, r.non_evictable_set_)
  IN IF r.curr_size_ = 0 THEN [ok |-> FALSE, frame_id |-> 0, r |-> r]
     ELSE IF i # 0
     THEN [ok |-> TRUE, frame_id |-> r.inf_history_list_[i],
           r |-> [r EXCEPT !.count_map_[r.inf_history_list_[i]] = 0,
                           !.inf_history_list_ = SeqRemoveAt(@, i), !.curr_size_ = @ - 1]]
     ELSE IF j # 0
     THEN [ok |-> TRUE, frame_id |-> r.history_list_[j],
           r |-> [r EXCEPT !.count_map_[r.history_list_[j]] = 0,
                           !.history_list_ = SeqRemoveAt(@, j), !.curr_size_ = @ - 1]]
     ELSE [ok |-> FALSE, frame_id |-> 0, r |-> r]

RecordAccess(r, frame_id) ==
  IF r.count_map_[frame_id] = 0
  THEN [r EXCEPT !.inf_history_list_ = Append(@, frame_id), !.count_map_[frame_id] = 1,
                 !.curr_size_ = @ + 1]
  ELSE IF r.count_map_[frame_id] >= ReplacerK /\ InList(r.history_list_, frame_id)
  THEN [r EXCEPT !.history_list_ = Append(SeqWithout(@, frame_id), frame_id),
                 !.count_map_[frame_id] = Bump(@)]
  ELSE IF Bump(r.count_map_[frame_id]) >= ReplacerK /\ InList(r.inf_history_list_, frame_id)
  THEN [r EXCEPT !.count_map_[frame_id] = Bump(@),
                 !.inf_history_list_ = SeqWithout(@, frame_id),
                 !.history_list_ = Append(@, frame_id)]
  ELSE [r EXCEPT !.count_map_[frame_id] = Bump(@)]

SetEvictable(r, frame_id, set_evictable) ==
  IF frame_id \notin r.non_evictable_set_ /\ ~set_evictable
  THEN [r EXCEPT !.non_evictable_set_ = @ \cup {frame_id}, !.curr_size_ = @ - 1]
  ELSE IF frame_id \in r.non_evictable_set_ /\ set_evictable
  THEN [r EXCEPT !.non_evictable_set_ = @ \ {frame_id}, !.curr_size_ = @ + 1]
  ELSE r

\* Remove: threw tells that the frame was non-evictable (the replacer is then unchanged).
Remove(r, frame_id) ==
  IF r.count_map_[frame_id] = 0 THEN [threw |-> FALSE, r |-> r]
  ELSE IF frame_id \in r.non_evictable_set_ THEN [threw |-> TRUE, r |-> r]
  ELSE IF r.count_map_[frame_id] >= ReplacerK /\ InList(r.history_list_, frame_id)
  THEN [threw |-> FALSE,
        r |-> [r EXCEPT !.history_list_ = SeqWithout(@, frame_id), !.curr_size_ = @ - 1]]
  ELSE IF InList(r.inf_history_list_, frame_id)
  THEN [threw |-> FALSE,
        r |-> [r EXCEPT !.inf_history_list_ = SeqWithout(@, frame_id), !.curr_size_ = @ - 1]]
  ELSE [threw |-> FALSE, r |-> r]

\* ---- BufferPoolManagerInstance ----
\* What a call returned: the frame of the Page* (-1 for nullptr) or the bool (ok), and whether
\* the call evicted a page.
Returned(op, page_id, frame, ok, evicted) ==
  [op |-> op, page_id |-> page_id, frame |-> frame, ok |-> ok, evicted |-> evicted]

\* A mutant of TakeFrame: the victim is not written back to disk.
TakeFrame_NoWriteBack ==
  IF free_list_ # <<>>
  THEN [ok |-> TRUE, frame_id |-> Last(free_list_), free |-> SubSeq(free_list_, 1, Len(free_list_) - 1),
        r |-> replacer_, pt |-> page_table_, disk |-> disk_written, data |-> disk_pages,
        evicted |-> FALSE]
  ELSE LET e == Evict(replacer_)
       IN [ok |-> e.ok, frame_id |-> e.frame_id, free |-> free_list_, r |-> e.r,
           pt |-> IF e.ok THEN HashRemove(page_table_, pages_[e.frame_id].page_id_) ELSE page_table_,
           disk |-> disk_written, data |-> disk_pages, evicted |-> e.ok]

\* The frame NewPgImp / FetchPgImp take: the back of the free list, else the replacer's
\* victim (written back when dirty, and removed from the page table), else none.
TakeFrame ==
  IF free_list_ # <<>>
  THEN [ok |-> TRUE, frame_id |-> free_list_[Len(free_list_)],
        free |-> SubSeq(free_list_, 1, Len(free_list_) - 1),
        r |-> replacer_, pt |-> page_table_, disk |-> disk_written, data |-> disk_pages,
        evicted |-> FALSE]
  ELSE LET e == Evict(replacer_)
       IN IF e.ok
          THEN [ok |-> TRUE, frame_id |-> e.frame_id, free |-> free_list_, r |-> e.r,
                pt |-> HashRemove(page_table_, pages_[e.frame_id].page_id_),
                disk |-> IF pages_[e.frame_id].is_dirty_
                         THEN disk_written \cup {pages_[e.frame_id].page_id_}
                         ELSE disk_written,
                data |-> IF pages_[e.frame_id].is_dirty_
                         THEN [disk_pages EXCEPT ![pages_[e.frame_id].page_id_] = pages_[e.frame_id].data_]
                         ELSE disk_pages,
                evicted |-> TRUE]
          ELSE [ok |-> FALSE, frame_id |-> 0, free |-> free_list_, r |-> replacer_,
                pt |-> page_table_, disk |-> disk_written, data |-> disk_pages, evicted |-> FALSE]

\* The part NewPgImp and FetchPgImp share once a frame is taken: page_id is loaded into it,
\* with the bytes data (zeros after ResetMemory, or what ReadPage delivers).
LoadInto(g, page_id, data) ==
  /\ free_list_' = g.free
  /\ disk_written' = g.disk
  /\ disk_pages' = g.data
  /\ pages_' = [pages_ EXCEPT ![g.frame_id] =
                  [page_id_ |-> page_id, pin_count_ |-> 1, is_dirty_ |-> FALSE, data_ |-> data]]
  /\ replacer_' = SetEvictable(RecordAccess(g.r, g.frame_id), g.frame_id, FALSE)
  /\ page_table_' = InsertInternal(g.pt, page_id, g.frame_id)
  /\ pin_balance' = [pin_balance EXCEPT ![g.frame_id] = 1]

NewPgImp ==
  LET g == TakeFrame
  IN IF ~g.ok
     THEN /\ bpm_ret' = Returned("NewPg", INVALID_PAGE_ID, -1, FALSE, FALSE)
          /\ UNCHANGED <<pages_, free_list_, next_page_id_, replacer_, page_table_,
                         disk_written, disk_pages, pin_balance>>
     ELSE /\ next_page_id_ < MaxPages
          /\ LoadInto(g, next_page_id_, 0)
          /\ next_page_id_' = next_page_id_ + 1
          /\ bpm_ret' = Returned("NewPg", next_page_id_, g.frame_id, TRUE, g.evicted)

FetchPgImp(page_id) ==
  LET hit == Find(page_table_, page_id)
      g == TakeFrame
  IN IF hit.found
     THEN /\ pages_[hit.value].pin_count_ < MaxPin
          /\ pages_' = [pages_ EXCEPT ![hit.value].pin_count_ = @ + 1]
          /\ replacer_' = SetEvictable(RecordAccess(replacer_, hit.value), hit.value, FALSE)
          /\ pin_balance' = [pin_balance EXCEPT ![hit.value] = @ + 1]
          /\ bpm_ret' = Returned("FetchPgHit", page_id, hit.value, TRUE, FALSE)
          /\ UNCHANGED <<free_list_, next_page_id_, page_table_, disk_written, disk_pages>>
     ELSE IF ~g.ok
     THEN /\ bpm_ret' = Returned("FetchPg", page_id, -1, FALSE, FALSE)
          /\ UNCHANGED <<pages_, free_list_, next_page_id_, replacer_, page_table_,
                         disk_written, disk_pages, pin_balance>>
     ELSE /\ LoadInto(g, page_id, g.data[page_id])
          /\ bpm_ret' = Returned("FetchPg", page_id, g.frame_id, TRUE, g.evicted)
          /\ UNCHANGED next_page_id_

\* A mutant of UnpinPgImp: the dirty flag of the call replaces the one of the page.
UnpinPgImp_OverwriteDirty(page_id, is_dirty) ==
  LET hit == Find(page_table_, page_id)
      f == hit.value
  IN IF ~hit.found \/ pages_[f].pin_count_ <= 0
     THEN /\ bpm_ret' = Returned("UnpinPg", page_id, -1, FALSE, FALSE)
          /\ UNCHANGED <<pages_, free_list_, next_page_id_, replacer_, page_table_,
                         disk_written, disk_pages, pin_balance>>
     ELSE /\ pages_' = [pages_ EXCEPT ![f].pin_count_ = @ - 1, ![f].is_dirty_ = is_dirty]
          /\ replacer_' = IF pages_[f].pin_count_ - 1 <= 0
                          THEN SetEvictable(replacer_, f, TRUE) ELSE replacer_
          /\ pin_balance' = [pin_balance EXCEPT ![f] = @ - 1]
          /\ bpm_ret' = Returned("UnpinPg", page_id, f, TRUE, FALSE)
          /\ UNCHANGED <<free_list_, next_page_id_, page_table_, disk_written, disk_pages>>

\* A mutant of UnpinPgImp: the test pin_count_ <= 0 is missing.
UnpinPgImp_NoPinCheck(page_id, is_dirty) ==
  LET hit == Find(page_table_, page_id)
      f == hit.value
  IN IF ~hit.found
     THEN /\ bpm_ret' = Returned("UnpinPg", page_id, -1, FALSE, FALSE)
          /\ UNCHANGED <<pages_, free_list_, next_page_id_, replacer_, page_table_,
                         disk_written, disk_pages, pin_balance>>
     ELSE /\ pages_[f].pin_count_ > -MaxPin
          /\ pages_' = [pages_ EXCEPT ![f].pin_count_ = @ - 1,
                                      ![f].is_dirty_ = IF is_dirty THEN TRUE ELSE @]
          /\ replacer_' = IF pages_[f].pin_count_ - 1 <= 0
                          THEN SetEvictable(replacer_, f, TRUE) ELSE replacer_
          /\ pin_balance' = [pin_balance EXCEPT ![f] = @ - 1]
          /\ bpm_ret' = Returned("UnpinPg", page_id, f, TRUE, FALSE)
          /\ UNCHANGED <<free_list_, next_page_id_, page_table_, disk_written, disk_pages>>

UnpinPgImp(page_id, is_dirty) ==
  LET hit == Find(page_table_, page_id)
      f == hit.value
  IN IF ~hit.found \/ pages_[f].pin_count_ <= 0
     THEN /\ bpm_ret' = Returned("UnpinPg", page_id, -1, FALSE, FALSE)
          /\ UNCHANGED <<pages_, free_list_, next_page_id_, replacer_, page_table_,
                         disk_written, disk_pages, pin_balance>>
     ELSE /\ pages_' = [pages_ EXCEPT ![f].pin_count_ = @ - 1,
                                      ![f].is_dirty_ = IF is_dirty THEN TRUE ELSE @]
          /\ replacer_' = IF pages_[f].pin_count_ - 1 <= 0
                          THEN SetEvictable(replacer_, f, TRUE) ELSE replacer_
          /\ pin_balance' = [pin_balance EXCEPT ![f] = @ - 1]
          /\ bpm_ret' = Returned("UnpinPg", page_id, f, TRUE, FALSE)
          /\ UNCHANGED <<free_list_, next_page_id_, page_table_, disk_written, disk_pages>>

\* Whether FlushPgImp(page_id) writes: the page id is valid and in the page table.
Flushes(page_id) == page_id # INVALID_PAGE_ID /\ Find(page_table_, page_id).found

FlushPgImp(page_id) ==
  /\ IF Flushes(page_id)
     THEN /\ disk_written' = disk_written \cup {pages_[Find(page_table_, page_id).value].page_id_}
          /\ disk_pages' = [disk_pages EXCEPT ![pages_[Find(page_table_, page_id).value].page_id_] =
                                               pages_[Find(page_table_, page_id).value].data_]
          /\ pages_' = [pages_ EXCEPT ![Find(page_table_, page_id).value].is_dirty_ = FALSE]
          /\ bpm_ret' = Returned("FlushPg", page_id, Find(page_table_, page_id).value, TRUE, FALSE)
     ELSE /\ bpm_ret' = Returned("FlushPg", page_id, -1, FALSE, FALSE)
          /\ UNCHANGED <<pages_, disk_written, disk_pages>>
  /\ UNCHANGED <<free_list_, next_page_id_, replacer_, page_table_, pin_balance>>

\* FlushPgImp for the page id of every frame, in frame order; no flush moves a page.
FlushAllPgsImp ==
  LET flushed == {f \in Frames : Flushes(pages_[f].page_id_)}
  IN /\ disk_written' = disk_written
                          \cup {pages_[Find(page_table_, pages_[f].page_id_).value].page_id_ : f \in flushed}
     /\ disk_pages' = [p \in DOMAIN disk_pages |->
                         IF \E f \in flushed : pages_[Find(page_table_, pages_[f].page_id_).value].page_id_ = p
                         THEN LET f == CHOOSE h \in flushed :
                                         pages_[Find(page_table_, pages_[h].page_id_).value].page_id_ = p
                              IN pages_[Find(page_table_, pages_[f].page_id_).value].data_
                         ELSE disk_pages[p]]
     /\ pages_' = [f \in Frames |->
                     IF \E h \in flushed : Find(page_table_, pages_[h].page_id_).value = f
                     THEN [pages_[f] EXCEPT !.is_dirty_ = FALSE] ELSE pages_[f]]
     /\ bpm_ret' = Returned("FlushAllPgs", INVALID_PAGE_ID, -1, TRUE, FALSE)
     /\ UNCHANGED <<free_list_, next_page_id_, replacer_, page_table_, pin_balance>>

\* A mutant of DeletePgImp: the test pin_count_ > 0 is missing.
DeletePgImp_IgnorePins(page_id) ==
  LET hit == Find(page_table_, page_id)
      f == hit.value
  IN IF ~hit.found
     THEN /\ bpm_ret' = Returned("DeletePg", page_id, -1, TRUE, FALSE)
          /\ UNCHANGED <<pages_, free_list_, next_page_id_, replacer_, page_table_,
                         disk_written, disk_pages, pin_balance>>
     ELSE /\ replacer_' = [replacer_ EXCEPT !.history_list_ = SeqWithout(@, f),
                                            !.inf_history_list_ = SeqWithout(@, f)]
          /\ page_table_' = HashRemove(page_table_, page_id)
          /\ free_list_' = Append(free_list_, f)
          /\ pages_' = [pages_ EXCEPT ![f] =
                          [page_id_ |-> INVALID_PAGE_ID, pin_count_ |-> 0, is_dirty_ |-> FALSE, data_ |-> 0]]
          /\ pin_balance' = [pin_balance EXCEPT ![f] = 0]
          /\ bpm_ret' = Returned("DeletePg", page_id, f, TRUE, FALSE)
          /\ UNCHANGED <<next_page_id_, disk_written, disk_pages>>

DeletePgImp(page_id) ==
  LET hit == Find(page_table_, page_id)
      f == hit.value
      rm == Remove(replacer_, f)
  IN IF ~hit.found
     THEN /\ bpm_ret' = Returned("DeletePg", page_id, -1, TRUE, FALSE)
          /\ UNCHANGED <<pages_, free_list_, next_page_id_, replacer_, page_table_,
                         disk_written, disk_pages, pin_balance>>
     ELSE IF pages_[f].pin_count_ > 0
     THEN /\ bpm_ret' = Returned("DeletePg", page_id, f, FALSE, FALSE)
          /\ UNCHANGED <<pages_, free_list_, next_page_id_, replacer_, page_table_,
                         disk_written, disk_pages, pin_balance>>
     ELSE IF rm.threw
     THEN /\ bpm_ret' = Returned("DeletePgThrew", page_id, f, FALSE, FALSE)
          /\ UNCHANGED <<pages_, free_list_, next_page_id_, replacer_, page_table_,
                         disk_written, disk_pages, pin_balance>>
     ELSE /\ replacer_' = rm.r
          /\ page_table_' = HashRemove(page_table_, page_id)
          /\ free_list_' = Append(free_list_, f)
          /\ pages_' = [pages_ EXCEPT ![f] =
                          [page_id_ |-> INVALID_PAGE_ID, pin_count_ |-> 0, is_dirty_ |-> FALSE, data_ |-> 0]]
          /\ pin_balance' = [pin_balance EXCEPT ![f] = 0]
          /\ bpm_ret' = Returned("DeletePg", page_id, f, TRUE, FALSE)
          /\ UNCHANGED <<next_page_id_, disk_written, disk_pages>>

InitBPM ==
  /\ pages_ = [f \in Frames |-> [page_id_ |-> INVALID_PAGE_ID, pin_count_ |-> 0, is_dirty_ |-> FALSE, data_ |-> 0]]
  /\ free_list_ = [i \in 1..PoolSize |-> i - 1]
  /\ next_page_id_ = 0
  /\ replacer_ = NewReplacer
  /\ page_table_ = NewHashTable
  /\ disk_written = {}
  /\ disk_pages = [p \in PageIds |-> 0]
  /\ bpm_ret = Returned("none", INVALID_PAGE_ID, -1, TRUE, FALSE)
  /\ pin_balance = [f \in Frames |-> 0]

\* ---- the bytes of a page ----
\* Page::GetData(): the caller that holds a pin on page_id writes d into the frame's bytes.  The
\* buffer pool is not called, so nothing but data_ changes.
MaxData == 1        \* the bytes of a page are one of 0 .. MaxData; 0 is a zeroed page
MaxDataPage == 0    \* the caller writes the pages 0 .. MaxDataPage
DataValues == 1..MaxData

WriteData(page_id, d) ==
  LET hit == Find(page_table_, page_id)
  IN /\ hit.found
     /\ pages_[hit.value].pin_count_ > 0
     /\ pages_[hit.value].data_ # d
     /\ pages_' = [pages_ EXCEPT ![hit.value].data_ = d]
     /\ UNCHANGED <<free_list_, next_page_id_, replacer_, page_table_, disk_written, disk_pages,
                    bpm_ret, pin_balance>>

\* ---- LRUKReplacer on its own: a replacer of ReplacerSize frames and its caller ----
ReplacerSize == 3     \* num_frames

\* access_log lists, oldest first, the frames of the accesses the replacer was told about
\* and has not been told to forget (by Evict returning the frame, or by Remove); of a frame
\* with ReplacerK accesses only the latest ReplacerK are kept.
Accesses(log, f) == {i \in 1..Len(log) : log[i] = f}

Logged(log, f) ==
  Append(IF Cardinality(Accesses(log, f)) >= ReplacerK
         THEN SeqRemoveAt(log, SetMin(Accesses(log, f))) ELSE log, f)

\* The other variables of the buffer pool stay as they are.
ReplacerOnly == UNCHANGED <<pages_, free_list_, next_page_id_, page_table_, disk_written, disk_pages, pin_balance>>

\* RecordAccess(frame_id); the call is not made when the assert of line 50 would fail.
LrukRecordAccess(frame_id) ==
  /\ ~(replacer_.count_map_[frame_id] = 0 /\ replacer_.curr_size_ = ReplacerSize /\ frame_id = 0)
  /\ replacer_' = RecordAccess(replacer_, frame_id)
  /\ access_log' = Logged(access_log, frame_id)
  /\ bpm_ret' = Returned("RecordAccess", INVALID_PAGE_ID, frame_id, TRUE, FALSE)
  /\ ReplacerOnly

\* SetEvictable(frame_id, set_evictable), for a frame count_map_ has.
LrukSetEvictable(frame_id, set_evictable) ==
  /\ replacer_.count_map_[frame_id] # 0
  /\ replacer_' = SetEvictable(replacer_, frame_id, set_evictable)
  /\ bpm_ret' = Returned("SetEvictable", INVALID_PAGE_ID, frame_id, TRUE, FALSE)
  /\ UNCHANGED access_log
  /\ ReplacerOnly

LrukEvict ==
  LET e == Evict(replacer_)
  IN /\ replacer_' = e.r
     /\ access_log' = IF e.ok THEN SeqWithout(access_log, e.frame_id) ELSE access_log
     /\ bpm_ret' = Returned("Evict", INVALID_PAGE_ID, IF e.ok THEN e.frame_id ELSE -1, e.ok, e.ok)
     /\ ReplacerOnly

\* Remove(frame_id); ok is false when the call threw.
LrukRemove(frame_id) ==
  LET rm == Remove(replacer_, frame_id)
  IN /\ replacer_' = rm.r
     /\ access_log' = IF frame_id \in replacer_.non_evictable_set_ THEN access_log
                      ELSE SeqWithout(access_log, frame_id)
     /\ bpm_ret' = Returned("Remove", INVALID_PAGE_ID, frame_id, ~rm.threw, FALSE)
     /\ ReplacerOnly

\* LRUKReplacer(num_frames, k)
NewReplacerOf(num_frames) == [NewReplacer EXCEPT !.count_map_ = [f \in 0..(num_frames - 1) |-> 0]]

InitLRUK ==
  /\ pages_ = [f \in Frames |-> [page_id_ |-> INVALID_PAGE_ID, pin_count_ |-> 0, is_dirty_ |-> FALSE, data_ |-> 0]]
  /\ free_list_ = [i \in 1..PoolSize |-> i - 1]
  /\ next_page_id_ = 0
  /\ replacer_ = NewReplacerOf(ReplacerSize)
  /\ page_table_ = NewHashTable
  /\ disk_written = {}
  /\ disk_pages = [p \in PageIds |-> 0]
  /\ bpm_ret = Returned("none", INVALID_PAGE_ID, -1, TRUE, FALSE)
  /\ pin_balance = [f \in Frames |-> 0]

\* ---- ExtendibleHashTable on its own: a table of int keys and its caller ----
MaxHashKey == 5

NumHashValues == 2

HashKeys == 0..MaxHashKey

HashValues == 0..(NumHashValues - 1)

HashOnly == UNCHANGED <<pages_, free_list_, next_page_id_, replacer_, disk_written, disk_pages, pin_balance>>

\* Insert(key, value)
EhtInsert(key, value) ==
  /\ page_table_' = InsertInternal(page_table_, key, value)
  /\ kv_hist' = [kv_hist EXCEPT ![key] = value]
  /\ bpm_ret' = Returned("Insert", key, value, TRUE, FALSE)
  /\ HashOnly

\* Remove(key): ok tells whether an entry was erased.
EhtRemove(key) ==
  /\ page_table_' = HashRemove(page_table_, key)
  /\ kv_hist' = [kv_hist EXCEPT ![key] = -1]
  /\ bpm_ret' = Returned("Remove", key, -1, Find(page_table_, key).found, FALSE)
  /\ HashOnly

\* Find(key, value): the value found (-1 when none) is kept in the field frame.
EhtFind(key) ==
  /\ bpm_ret' = Returned("Find", key,
                         IF Find(page_table_, key).found THEN Find(page_table_, key).value ELSE -1,
                         Find(page_table_, key).found, FALSE)
  /\ UNCHANGED <<page_table_, kv_hist>>
  /\ HashOnly

InitUnits ==
  /\ access_log = <<>>
  /\ kv_hist = [k \in HashKeys |-> -1]
  /\ page_hist = [p \in PageIds |-> -1]

\* ========================================================================
\* B+TREE
\* ========================================================================
\* The tree runs above a buffer pool that always has a frame to give: a page is the
\* record held under its page id, NewPage hands out increasing ids and DeletePage drops
\* the record.  Calls run one after another.  A read of a page that was deleted, of an
\* array slot at or past size_, a failed assert and a latch request that can never be
\* granted end the call: tree_fault names the first of them and no later call starts.
LeafMaxSize == 3

InternalMaxSize == 3

MaxKey == 5

NumValues == 1

MaxTreePageId == 7

Keys == 1..MaxKey

Values == 1..NumValues

NoFault == "none"

\* ---- BPlusTreePage (header) ----
GetSize(page) == Len(page.array_)

IsLeafPage(page) == page.page_type_ = "LEAF_PAGE"

IsRootPage(page) == page.parent_page_id_ = INVALID_PAGE_ID

GetMaxSize(page) == IF IsLeafPage(page) THEN LeafMaxSize ELSE InternalMaxSize

\* ceil(max_size / 2); a root may hold less: the callers in b_plus_tree.cpp expect a
\* root leaf below its minimum to be empty and a root internal page below its minimum
\* to have one child.
GetMinSize(page) ==
  IF IsRootPage(page)
  THEN (IF IsLeafPage(page) THEN 1 ELSE 2)
  ELSE (GetMaxSize(page) + 1) \div 2

\* ---- pages: array_ is the sequence of the size_ pairs in use, slot i is array_[i + 1] ----
LeafInit(parent_id) ==
  [page_type_ |-> "LEAF_PAGE", parent_page_id_ |-> parent_id,
   next_page_id_ |-> INVALID_PAGE_ID, array_ |-> <<>>]

InternalInit(parent_id) ==
  [page_type_ |-> "INTERNAL_PAGE", parent_page_id_ |-> parent_id,
   next_page_id_ |-> INVALID_PAGE_ID, array_ |-> <<>>]

MappingType(first, second) == [first |-> first, second |-> second]

\* The binary search of both GetKeyIndex: over the slots i..j, by key.
RECURSIVE KeySearch(_, _, _, _)
KeySearch(array, key, i, j) ==
  IF i > j THEN [find |-> FALSE, index |-> i]
  ELSE LET m == (j - i) \div 2 + i
       IN IF array[m + 1].first < key THEN KeySearch(array, key, m + 1, j)
          ELSE IF array[m + 1].first > key THEN KeySearch(array, key, i, m - 1)
          ELSE [find |-> TRUE, index |-> m]

LeafGetKeyIndex(page, key) == KeySearch(page.array_, key, 0, GetSize(page) - 1)

InternalGetKeyIndex(page, key) == KeySearch(page.array_, key, 1, GetSize(page) - 1)

\* The binary search of GetValueIndex: over all slots, by child page id.  A search that
\* fails leaves the caller's index as it was, 0.
RECURSIVE ValueSearch(_, _, _, _)
ValueSearch(array, value, i, j) ==
  IF i > j THEN [find |-> FALSE, index |-> 0]
  ELSE LET m == (j - i) \div 2 + i
       IN IF array[m + 1].second < value THEN ValueSearch(array, value, m + 1, j)
          ELSE IF array[m + 1].second > value THEN ValueSearch(array, value, i, m - 1)
          ELSE [find |-> TRUE, index |-> m]

GetValueIndex(page, value) == ValueSearch(page.array_, value, 0, GetSize(page) - 1)

LeafGetValue(page, key) ==
  LET r == LeafGetKeyIndex(page, key)
  IN IF r.find THEN [find |-> TRUE, value |-> page.array_[r.index + 1].second]
     ELSE [find |-> FALSE, value |-> 0]

LeafInsert(page, key, value) ==
  LET r == LeafGetKeyIndex(page, key)
  IN IF r.find THEN [ret |-> FALSE, page |-> page]
     ELSE [ret |-> TRUE,
           page |-> [page EXCEPT !.array_ = SeqInsertAt(@, r.index + 1, MappingType(key, value))]]

LeafRemove(page, key) ==
  LET r == LeafGetKeyIndex(page, key)
  IN IF r.find THEN [page EXCEPT !.array_ = SeqRemoveAt(@, r.index + 1)] ELSE page

\* Needs a page with at least one child.
InternalGetValue(page, key) ==
  LET r == InternalGetKeyIndex(page, key)
  IN IF r.find THEN page.array_[r.index + 1].second ELSE page.array_[r.index].second

InternalInsert(page, key, value) ==
  LET r == InternalGetKeyIndex(page, key)
  IN IF r.find THEN [ret |-> FALSE, page |-> page]
     ELSE [ret |-> TRUE,
           page |-> [page EXCEPT !.array_ = SeqInsertAt(@, r.index + 1, MappingType(key, value))]]

InternalRemove(page, index) == [page EXCEPT !.array_ = SeqRemoveAt(@, index + 1)]

Children(items) == {items[i].second : i \in DOMAIN items}

\* child_page->SetParentPageId(GetPageId()) for each of the children
SetParents(pages, children, parent_id) ==
  [p \in DOMAIN pages |->
     IF p \in children THEN [pages[p] EXCEPT !.parent_page_id_ = parent_id] ELSE pages[p]]

\* The pairs a page hands over with slot 0 keyed by the middle key.
KeyedBy(items, middle_key) ==
  IF items = <<>> THEN <<>>
  ELSE <<MappingType(middle_key, items[1].second)>> \o Tail(items)

LeafMoveFirstToEndOf(pages, from_id, to_id) ==
  [pages EXCEPT ![to_id].array_ = Append(@, Head(pages[from_id].array_)),
                ![from_id].array_ = Tail(@)]

LeafMoveLastToFrontOf(pages, from_id, to_id) ==
  [pages EXCEPT ![to_id].array_ = <<pages[from_id].array_[Len(pages[from_id].array_)]>> \o @,
                ![from_id].array_ = SubSeq(@, 1, Len(@) - 1)]

LeafMoveAllTo(pages, from_id, to_id) ==
  [pages EXCEPT ![to_id].array_ = @ \o pages[from_id].array_,
                ![to_id].next_page_id_ = pages[from_id].next_page_id_,
                ![from_id].array_ = <<>>]

InternalMoveFirstToEndOf(pages, from_id, to_id, middle_key) ==
  LET first_item == MappingType(middle_key, pages[from_id].array_[1].second)
  IN SetParents([pages EXCEPT ![to_id].array_ = Append(@, first_item),
                              ![from_id].array_ = Tail(@)],
                {first_item.second}, to_id)

InternalMoveLastToFrontOf(pages, from_id, to_id, middle_key) ==
  LET last_item == pages[from_id].array_[Len(pages[from_id].array_)]
  IN SetParents([pages EXCEPT ![to_id].array_ = <<last_item>> \o KeyedBy(@, middle_key),
                              ![from_id].array_ = SubSeq(@, 1, Len(@) - 1)],
                {last_item.second}, to_id)

InternalMoveAllTo(pages, from_id, to_id, middle_key) ==
  LET items == KeyedBy(pages[from_id].array_, middle_key)
  IN SetParents([pages EXCEPT ![to_id].array_ = @ \o items,
                              ![from_id].array_ = <<>>],
                Children(items), to_id)

\* ---- BPlusTree ----
\* ---- HeaderPage: the record (index_name_, root_page_id) of this tree, if there is one ----
NoRecord == -2

\* insert record: a record of the name is added unless there is one.
InsertRecord(record, root_id) == IF record = NoRecord THEN root_id ELSE record

\* update record: the record of the name gets the root id, if there is a record.
UpdateRecord(record, root_id) == IF record = NoRecord THEN record ELSE root_id

\* A call works on the record t: the pages, the root id, the next page id, the
\* transaction's deleted page set, the fault if any, the value to return, and the header
\* page's record.
Faulted(t, why) == [t EXCEPT !.fault = IF @ = NoFault THEN why ELSE @]

RECURSIVE Descend(_, _, _, _, _)
Descend(pages, page_id, mode, key, fuel) ==
  IF page_id \notin DOMAIN pages \/ fuel = 0 THEN INVALID_PAGE_ID
  ELSE LET current == pages[page_id]
       IN IF IsLeafPage(current) THEN page_id
          ELSE IF GetSize(current) = 0 THEN INVALID_PAGE_ID
          ELSE LET next_page_id ==
                     IF mode = "SEARCH_LEFTMOST" THEN current.array_[1].second
                     ELSE IF mode = "SEARCH_RIGHTMOST"
                          THEN current.array_[GetSize(current)].second
                          ELSE InternalGetValue(current, key)
               IN Descend(pages, next_page_id, mode, key, fuel - 1)

\* UpdateRootPageId(insert_record): all callers pass the default, insert_record = 0.
UpdateRootPageId(t, insert_record) ==
  [t EXCEPT !.header = IF insert_record # 0 THEN InsertRecord(@, t.root_page_id_)
                       ELSE UpdateRecord(@, t.root_page_id_)]

\* The id of the leaf the descent ends at; INVALID_PAGE_ID when the descent reads a
\* deleted page, a page without children, or never reaches a leaf.
GetLeafPage(t, mode, key) == Descend(t.pages, t.root_page_id_, mode, key, t.next)

\* The new page receives the id t.next.
Split(t, page_id) ==
  LET page == t.pages[page_id]
      new_id == t.next
  IN IF IsLeafPage(page)
     THEN LET remain_size == GetMinSize(page)
              new_leaf == [LeafInit(page.parent_page_id_) EXCEPT
                             !.array_ = SubSeq(page.array_, remain_size + 1, GetSize(page)),
                             !.next_page_id_ = page.next_page_id_]
              leaf == [page EXCEPT !.array_ = SubSeq(@, 1, remain_size),
                                   !.next_page_id_ = new_id]
          IN [t EXCEPT !.pages = (new_id :> new_leaf) @@ [@ EXCEPT ![page_id] = leaf],
                       !.next = new_id + 1]
     ELSE LET remain_size == (GetMaxSize(page) + 1) \div 2
              items == SubSeq(page.array_, remain_size + 1, GetSize(page))
              new_internal == [InternalInit(page.parent_page_id_) EXCEPT !.array_ = items]
              internal == [page EXCEPT !.array_ = SubSeq(@, 1, remain_size)]
              pages == (new_id :> new_internal) @@ [t.pages EXCEPT ![page_id] = internal]
          IN IF Children(items) \subseteq DOMAIN t.pages
             THEN [t EXCEPT !.pages = SetParents(pages, Children(items), new_id),
                            !.next = new_id + 1]
             ELSE Faulted(t, "FetchPage of a deleted page")

RECURSIVE InsertIntoParent(_, _, _, _)
InsertIntoParent(t, old_id, new_id, risen_key) ==
  LET old_page == t.pages[old_id]
  IN IF t.fault # NoFault THEN t
     ELSE IF IsRootPage(old_page)
     THEN LET root_id == t.next
              new_root == [InternalInit(INVALID_PAGE_ID) EXCEPT
                             !.array_ = <<MappingType(0, old_id), MappingType(risen_key, new_id)>>]
          IN UpdateRootPageId(
               [t EXCEPT !.pages = SetParents((root_id :> new_root) @@ @, {old_id, new_id}, root_id),
                         !.root_page_id_ = root_id,
                         !.next = root_id + 1,
                         !.ret = TRUE], 0)
     ELSE IF old_page.parent_page_id_ \notin DOMAIN t.pages
     THEN Faulted(t, "FetchPage of a deleted page")
     ELSE LET parent_id == old_page.parent_page_id_
              ins == InternalInsert(t.pages[parent_id], risen_key, new_id)
              t1 == [t EXCEPT !.pages[parent_id] = ins.page, !.ret = ins.ret]
          IN IF GetSize(ins.page) <= InternalMaxSize THEN t1
             ELSE LET new_parent_id == t1.next
                      t2 == Split(t1, parent_id)
                  IN IF t2.fault # NoFault THEN t2
                     ELSE InsertIntoParent(t2, parent_id, new_parent_id,
                                           t2.pages[new_parent_id].array_[1].first)

\* Insert into an empty tree: a new leaf becomes the root.
StartNewTree(t, key, value) ==
  LET root_id == t.next
  IN UpdateRootPageId(
       [t EXCEPT !.pages = (root_id :> LeafInsert(LeafInit(INVALID_PAGE_ID), key, value).page) @@ @,
                 !.root_page_id_ = root_id,
                 !.next = root_id + 1,
                 !.ret = TRUE], 0)

\* Insert from the leaf the descent ended at.
InsertAtLeaf(t, leaf_id, key, value) ==
  LET ins == LeafInsert(t.pages[leaf_id], key, value)
      t1 == [t EXCEPT !.pages[leaf_id] = ins.page, !.ret = ins.ret]
  IN IF ~ins.ret THEN t1
     ELSE IF GetSize(ins.page) < GetMaxSize(ins.page) THEN t1
     ELSE LET new_leaf_id == t1.next
              t2 == Split(t1, leaf_id)
          IN InsertIntoParent(t2, leaf_id, new_leaf_id, t2.pages[new_leaf_id].array_[1].first)

BPlusTreeInsert(t, key, value) ==
  IF t.root_page_id_ = INVALID_PAGE_ID
  THEN StartNewTree(t, key, value)
  ELSE LET leaf_id == GetLeafPage(t, "INSERT", key)
       IN IF leaf_id = INVALID_PAGE_ID THEN Faulted(t, "FetchPage of a deleted page")
          ELSE InsertAtLeaf(t, leaf_id, key, value)

\* The sibling has an entry to spare: borrow it and set the separator in the parent.
Redistribute(t, page_id, parent_id, sibling_id, index, from_prev) ==
  LET parent == t.pages[parent_id]
  IN IF IsLeafPage(t.pages[page_id])
     THEN IF ~from_prev
          THEN LET pages == LeafMoveFirstToEndOf(t.pages, sibling_id, page_id)
               IN [t EXCEPT !.pages = [pages EXCEPT ![parent_id].array_[2].first =
                                                      pages[sibling_id].array_[1].first]]
          ELSE LET pages == LeafMoveLastToFrontOf(t.pages, sibling_id, page_id)
               IN [t EXCEPT !.pages = [pages EXCEPT ![parent_id].array_[index + 1].first =
                                                      pages[page_id].array_[1].first]]
     ELSE IF ~from_prev
          THEN LET pages == InternalMoveFirstToEndOf(t.pages, sibling_id, page_id,
                                                     parent.array_[2].first)
               IN IF t.pages[sibling_id].array_[1].second \notin DOMAIN t.pages
                  THEN Faulted(t, "FetchPage of a deleted page")
                  ELSE [t EXCEPT !.pages = [pages EXCEPT ![parent_id].array_[2].first =
                                                           pages[sibling_id].array_[1].first]]
          ELSE LET pages == InternalMoveLastToFrontOf(t.pages, sibling_id, page_id,
                                                      parent.array_[index + 1].first)
               IN IF t.pages[sibling_id].array_[GetSize(t.pages[sibling_id])].second
                       \notin DOMAIN t.pages
                  THEN Faulted(t, "FetchPage of a deleted page")
                  ELSE [t EXCEPT !.pages = [pages EXCEPT ![parent_id].array_[index + 1].first =
                                                           pages[page_id].array_[1].first]]

\* The sibling has nothing to spare: merge the two pages and drop one from the parent.
Coalesce(t, page_id, parent_id, sibling_id, index, from_prev) ==
  LET parent == t.pages[parent_id]
      from_id == IF from_prev THEN page_id ELSE sibling_id
      to_id == IF from_prev THEN sibling_id ELSE page_id
      slot == IF from_prev THEN index ELSE 1
      pages == IF IsLeafPage(t.pages[page_id])
               THEN LeafMoveAllTo(t.pages, from_id, to_id)
               ELSE InternalMoveAllTo(t.pages, from_id, to_id, parent.array_[slot + 1].first)
  IN IF ~IsLeafPage(t.pages[page_id])
        /\ ~(Children(t.pages[from_id].array_) \subseteq DOMAIN t.pages)
     THEN Faulted(t, "FetchPage of a deleted page")
     ELSE [t EXCEPT !.pages = [pages EXCEPT ![parent_id] = InternalRemove(pages[parent_id], slot)],
                    !.deleted = @ \cup {from_id}]

RECURSIVE CoalesceOrRedistribute(_, _)
CoalesceOrRedistribute(t, page_id) ==
  LET page == t.pages[page_id]
  IN IF t.fault # NoFault THEN t
     ELSE IF GetSize(page) >= GetMinSize(page) THEN t
     ELSE IF IsRootPage(page) /\ IsLeafPage(page)
     THEN IF GetSize(page) # 0 THEN Faulted(t, "assert(page->GetSize() == 0)")
          ELSE UpdateRootPageId(
                 [t EXCEPT !.root_page_id_ = INVALID_PAGE_ID, !.deleted = @ \cup {page_id}], 0)
     ELSE IF IsRootPage(page) /\ GetSize(page) = 1
     THEN LET child == page.array_[1].second
          IN IF child \notin DOMAIN t.pages THEN Faulted(t, "FetchPage of a deleted page")
             ELSE UpdateRootPageId(
                    [t EXCEPT !.pages[child].parent_page_id_ = INVALID_PAGE_ID,
                              !.root_page_id_ = child,
                              !.deleted = @ \cup {page_id}], 0)
     ELSE IF page.parent_page_id_ \notin DOMAIN t.pages
     THEN Faulted(t, "FetchPage of a deleted page")
     ELSE LET parent_id == page.parent_page_id_
              parent == t.pages[parent_id]
              index == GetValueIndex(parent, page_id).index
              from_prev == index # 0
              sibling_index == index + (IF from_prev THEN -1 ELSE 1)
          IN IF sibling_index >= GetSize(parent) THEN Faulted(t, "ValueAt past size")
             ELSE LET sibling_id == parent.array_[sibling_index + 1].second
                  IN IF sibling_id \notin DOMAIN t.pages
                     THEN Faulted(t, "FetchPage of a deleted page")
                     ELSE IF sibling_id = page_id
                     THEN Faulted(t, "WLatch of a page the thread holds")
                     ELSE IF t.pages[sibling_id].page_type_ # page.page_type_
                     THEN Faulted(t, "leaf and internal page mixed")
                     ELSE IF GetSize(t.pages[sibling_id]) > GetMinSize(t.pages[sibling_id])
                     THEN Redistribute(t, page_id, parent_id, sibling_id, index, from_prev)
                     ELSE CoalesceOrRedistribute(
                            Coalesce(t, page_id, parent_id, sibling_id, index, from_prev),
                            parent_id)

\* ReleaseLatch(transaction, true): the pages of the deleted page set are deleted.
ReleaseLatch(t) ==
  [t EXCEPT !.pages = [p \in (DOMAIN t.pages) \ t.deleted |-> t.pages[p]], !.deleted = {}]

\* Remove from the leaf the descent ended at.
RemoveAtLeaf(t, leaf_id, key) ==
  LET leaf == LeafRemove(t.pages[leaf_id], key)
      t1 == [t EXCEPT !.pages[leaf_id] = leaf]
  IN IF GetSize(leaf) = GetSize(t.pages[leaf_id]) THEN t
     ELSE IF GetSize(leaf) >= GetMinSize(leaf) THEN t1
     ELSE ReleaseLatch(CoalesceOrRedistribute(t1, leaf_id))

\* The lookups of CoalesceOrRedistribute during one Remove: for every page it finds below
\* its minimum under a parent, the page, the parent, what parent->GetValueIndex answered
\* (index stays 0 when the search fails), the sibling slot computed from it and the page
\* in that slot, which it write-latches.
RECURSIVE SiblingLookups(_, _)
SiblingLookups(t, page_id) ==
  LET page == t.pages[page_id]
  IN IF t.fault # NoFault \/ GetSize(page) >= GetMinSize(page) THEN {}
     ELSE IF IsRootPage(page) \/ page.parent_page_id_ \notin DOMAIN t.pages THEN {}
     ELSE LET parent_id == page.parent_page_id_
              parent == t.pages[parent_id]
              r == GetValueIndex(parent, page_id)
              from_prev == r.index # 0
              sibling_index == r.index + (IF from_prev THEN -1 ELSE 1)
              here == [page |-> page_id, parent |-> parent_id, find |-> r.find,
                       index |-> r.index, sibling_index |-> sibling_index,
                       sibling |-> IF sibling_index < GetSize(parent)
                                   THEN parent.array_[sibling_index + 1].second
                                   ELSE INVALID_PAGE_ID]
          IN IF sibling_index >= GetSize(parent) THEN {here}
             ELSE LET sibling_id == parent.array_[sibling_index + 1].second
                  IN IF sibling_id \notin DOMAIN t.pages \/ sibling_id = page_id
                        \/ t.pages[sibling_id].page_type_ # page.page_type_
                        \/ GetSize(t.pages[sibling_id]) > GetMinSize(t.pages[sibling_id])
                     THEN {here}
                     ELSE {here} \cup
                          SiblingLookups(Coalesce(t, page_id, parent_id, sibling_id,
                                                  r.index, from_prev), parent_id)

\* The lookups of Remove(key): of the leaf once the key is taken out, and upwards.
RemoveLookups(t, key) ==
  IF t.root_page_id_ = INVALID_PAGE_ID THEN {}
  ELSE LET leaf_id == GetLeafPage(t, "DELETE", key)
       IN IF leaf_id = INVALID_PAGE_ID THEN {}
          ELSE LET leaf == LeafRemove(t.pages[leaf_id], key)
               IN IF GetSize(leaf) = GetSize(t.pages[leaf_id]) THEN {}
                  ELSE SiblingLookups([t EXCEPT !.pages[leaf_id] = leaf], leaf_id)

BPlusTreeRemove(t, key) ==
  IF t.root_page_id_ = INVALID_PAGE_ID THEN t
  ELSE LET leaf_id == GetLeafPage(t, "DELETE", key)
       IN IF leaf_id = INVALID_PAGE_ID THEN Faulted(t, "FetchPage of a deleted page")
          ELSE RemoveAtLeaf(t, leaf_id, key)

BPlusTreeGetValue(t, key) ==
  IF t.root_page_id_ = INVALID_PAGE_ID THEN [done |-> TRUE, find |-> FALSE, value |-> 0]
  ELSE LET leaf_id == GetLeafPage(t, "SEARCH", key)
       IN IF leaf_id = INVALID_PAGE_ID THEN [done |-> FALSE, find |-> FALSE, value |-> 0]
          ELSE LET r == LeafGetValue(t.pages[leaf_id], key)
               IN [done |-> TRUE, find |-> r.find, value |-> r.value]

\* ---- IndexIterator: for (it = Begin(); it != End(); ++it) over the keys (*it).first ----
RECURSIVE Advance(_, _, _, _, _, _)
Advance(pages, leaf_id, index_, end_, keys, fuel) ==
  IF leaf_id = end_.leaf_id /\ index_ = end_.index_ THEN [done |-> TRUE, keys |-> keys]
  ELSE IF fuel = 0 \/ leaf_id \notin DOMAIN pages THEN [done |-> FALSE, keys |-> keys]
  ELSE LET leaf_page_ == pages[leaf_id]
       IN IF index_ >= GetSize(leaf_page_) THEN [done |-> FALSE, keys |-> keys]
          ELSE IF index_ = GetSize(leaf_page_) - 1
                  /\ leaf_page_.next_page_id_ # INVALID_PAGE_ID
               THEN Advance(pages, leaf_page_.next_page_id_, 0, end_,
                            Append(keys, leaf_page_.array_[index_ + 1].first), fuel - 1)
               ELSE Advance(pages, leaf_id, index_ + 1, end_,
                            Append(keys, leaf_page_.array_[index_ + 1].first), fuel - 1)

\* done is FALSE when the loop reads a deleted page or a slot past size_, or has not
\* met End() after more steps than there are keys.
BPlusTreeIterate(t) ==
  IF t.root_page_id_ = INVALID_PAGE_ID THEN [done |-> TRUE, keys |-> <<>>]
  ELSE LET begin_id == GetLeafPage(t, "SEARCH_LEFTMOST", 0)
           end_id == GetLeafPage(t, "SEARCH_RIGHTMOST", 0)
       IN IF begin_id = INVALID_PAGE_ID \/ end_id = INVALID_PAGE_ID
          THEN [done |-> FALSE, keys |-> <<>>]
          ELSE Advance(t.pages, begin_id, 0,
                       [leaf_id |-> end_id, index_ |-> GetSize(t.pages[end_id])],
                       <<>>, MaxKey + 1)

\* for (it = Begin(key); it != End(); ++it): Begin(key) is the default iterator when the
\* leaf does not hold key, and operator== of an iterator without a leaf is true.
BPlusTreeIterateFrom(t, key) ==
  IF t.root_page_id_ = INVALID_PAGE_ID THEN [done |-> TRUE, keys |-> <<>>]
  ELSE LET begin_id == GetLeafPage(t, "SEARCH", key)
           end_id == GetLeafPage(t, "SEARCH_RIGHTMOST", 0)
       IN IF begin_id = INVALID_PAGE_ID \/ end_id = INVALID_PAGE_ID
          THEN [done |-> FALSE, keys |-> <<>>]
          ELSE LET r == LeafGetKeyIndex(t.pages[begin_id], key)
               IN IF ~r.find THEN [done |-> TRUE, keys |-> <<>>]
                  ELSE Advance(t.pages, begin_id, r.index,
                               [leaf_id |-> end_id, index_ |-> GetSize(t.pages[end_id])],
                               <<>>, MaxKey + 1)

\* ---- the calls of the tree ----
TreeNow ==
  [pages |-> tree_pages, root_page_id_ |-> root_page_id_, next |-> tree_next_page_id,
   deleted |-> {}, fault |-> NoFault, ret |-> TRUE, header |-> header_record]

TreeReturned(op, key, ret, value, keys) ==
  [op |-> op, key |-> key, ret |-> ret, value |-> value, keys |-> keys]

\* The call returned and left the tree as t, or it never returned.
TreeAfter(t) ==
  IF t.fault # NoFault
  THEN /\ tree_fault' = t.fault
       /\ UNCHANGED <<tree_pages, root_page_id_, tree_next_page_id, header_record>>
  ELSE /\ tree_pages' = t.pages
       /\ header_record' = t.header
       /\ root_page_id_' = t.root_page_id_
       /\ tree_next_page_id' = t.next
       /\ UNCHANGED tree_fault

TreeInsert(key, value) ==
  LET t == BPlusTreeInsert(TreeNow, key, value)
  IN /\ tree_fault = NoFault
     /\ t.next <= MaxTreePageId + 1
     /\ TreeAfter(t)
     /\ tree_ret' = TreeReturned("Insert", 0, t.fault = NoFault /\ t.ret, 0, <<>>)
     /\ tree_kv' = IF t.fault = NoFault /\ t.ret THEN [tree_kv EXCEPT ![key] = value] ELSE tree_kv

TreeRemove(key) ==
  LET t == BPlusTreeRemove(TreeNow, key)
  IN /\ tree_fault = NoFault
     /\ TreeAfter(t)
     /\ tree_ret' = TreeReturned("Remove", 0, t.fault = NoFault, 0, <<>>)
     /\ tree_kv' = IF t.fault = NoFault THEN [tree_kv EXCEPT ![key] = 0] ELSE tree_kv

TreeGetValue(key) ==
  LET r == BPlusTreeGetValue(TreeNow, key)
  IN /\ tree_fault = NoFault
     /\ tree_fault' = IF r.done THEN NoFault ELSE "FetchPage of a deleted page"
     /\ tree_ret' = TreeReturned("GetValue", key, r.find, r.value, <<>>)
     /\ UNCHANGED <<tree_pages, root_page_id_, tree_next_page_id, tree_kv, header_record>>

TreeIterate ==
  LET r == BPlusTreeIterate(TreeNow)
  IN /\ tree_fault = NoFault
     /\ tree_fault' = IF r.done THEN NoFault ELSE "iteration does not reach End()"
     /\ tree_ret' = TreeReturned("Iterate", 0, r.done, 0, r.keys)
     /\ UNCHANGED <<tree_pages, root_page_id_, tree_next_page_id, tree_kv, header_record>>

TreeIterateFrom(key) ==
  LET r == BPlusTreeIterateFrom(TreeNow, key)
  IN /\ tree_fault = NoFault
     /\ tree_fault' = IF r.done THEN NoFault ELSE "iteration does not reach End()"
     /\ tree_ret' = TreeReturned("IterateFrom", key, r.done, 0, r.keys)
     /\ UNCHANGED <<tree_pages, root_page_id_, tree_next_page_id, tree_kv, header_record>>

InitTree ==
  /\ root_page_id_ = INVALID_PAGE_ID
  /\ tree_pages = <<>>
  /\ tree_next_page_id = 1
  /\ tree_fault = NoFault
  /\ tree_ret = TreeReturned("none", 0, TRUE, 0, <<>>)
  /\ tree_kv = [k \in Keys |-> 0]
  /\ header_record = NoRecord

\* ========================================================================
\* B+TREE, CONCURRENT CALLS: the latches of GetLeafPage
\* ========================================================================
\* Each thread runs one call of the tree at a time.  A step of a thread is the
\* acquisition of one latch (the thread waits until the latch is free) followed by
\* what the call does up to its next latch request; the release of the root-id read
\* latch is a step of its own.  The work at the leaf (the lookup, or the insert or
\* remove with its splits and merges) is one step, taken when the sibling latches it
\* needs are free.
NumThreads == 2

MaxCalls == 1

MaxLatchKey == 7

Threads == DOMAIN thr

LatchKeys == 1..MaxLatchKey

ROOT_PAGE_ID_LATCH == 0

IdleThread ==
  [op |-> "none", key |-> 0, pc |-> "idle", page |-> 0, prev |-> 0, page_set |-> <<>>,
   root_r |-> FALSE, r_held |-> {}, w_cur |-> 0, path |-> <<>>, calls |-> 0, ret |-> "none",
   it_leaf |-> 0, it_index |-> 0]

ModeOf(op) ==
  CASE op = "GetValue" -> "SEARCH"
    [] op = "BeginAt" -> "SEARCH"
    [] op = "Begin" -> "SEARCH_LEFTMOST"
    [] op = "End" -> "SEARCH_RIGHTMOST"
    [] op = "Insert" -> "INSERT"
    [] op = "Remove" -> "DELETE"

IsDirty(mode) ==
  mode # "SEARCH" /\ mode # "SEARCH_LEFTMOST" /\ mode # "SEARCH_RIGHTMOST"

\* A mutant of IsSafe: every page is judged safe.
IsSafe_Always(page, mode) == TRUE

IsSafe(page, mode) ==
  IF mode = "INSERT"
  THEN IF IsLeafPage(page) THEN GetSize(page) < GetMaxSize(page) - 1
       ELSE GetSize(page) <= GetMaxSize(page) - 1
  ELSE IF mode = "DELETE"
  THEN IF IsRootPage(page)
       THEN IF IsLeafPage(page) THEN GetSize(page) >= LeafMaxSize \div 2 + 1
            ELSE GetSize(page) >= (InternalMaxSize + 1) \div 2 + 1
       ELSE GetSize(page) >= GetMinSize(page) + 1
  ELSE TRUE

\* Who holds what: the transaction's page set holds the write-latched ancestors, with
\* nullptr (ROOT_PAGE_ID_LATCH) standing for root_page_id_latch_; the page the descent
\* stands on is latched and not yet in the page set.
InPageSet(t, p) == \E i \in 1..Len(thr[t].page_set) : thr[t].page_set[i] = p

RootWriters == {t \in Threads : InPageSet(t, ROOT_PAGE_ID_LATCH)}

RootReaders == {t \in Threads : thr[t].root_r}

WHolders(p) == {t \in Threads : thr[t].w_cur = p \/ InPageSet(t, p)}

RHolders(p) == {t \in Threads : p \in thr[t].r_held}

\* Latch(mode, transaction) at the head of GetValue, Begin, End, Insert and Remove, then
\* the IsEmpty test and FetchPage(root_page_id_).
LatchRootId(t, op, key) ==
  LET me == thr[t]
      started == [me EXCEPT !.op = op, !.key = key, !.calls = @ + 1, !.path = <<>>, !.ret = "none"]
  IN /\ me.pc = "idle"
     /\ me.calls < MaxCalls
     /\ tree_fault = NoFault
     /\ RootWriters = {}
     /\ IsDirty(ModeOf(op)) => RootReaders = {}
     /\ IF root_page_id_ = INVALID_PAGE_ID
        THEN IF op = "Insert"
             THEN /\ TreeAfter(StartNewTree(TreeNow, key, 1))
                  /\ tree_kv' = [tree_kv EXCEPT ![key] = 1]
                  /\ thr' = [thr EXCEPT ![t] = [started EXCEPT !.ret = "true"]]
             ELSE /\ thr' = [thr EXCEPT ![t] = [started EXCEPT !.ret = "empty"]]
                  /\ UNCHANGED <<tree_pages, root_page_id_, tree_next_page_id, tree_fault, tree_kv, header_record>>
        ELSE /\ thr' = [thr EXCEPT ![t] =
                          IF IsDirty(ModeOf(op))
                          THEN [started EXCEPT !.pc = "latch", !.page = root_page_id_, !.prev = 0,
                                               !.page_set = <<ROOT_PAGE_ID_LATCH>>]
                          ELSE [started EXCEPT !.pc = "fetched", !.page = root_page_id_, !.prev = 0,
                                               !.root_r = TRUE]]
             /\ UNCHANGED <<tree_pages, root_page_id_, tree_next_page_id, tree_fault, tree_kv, header_record>>
     /\ UNCHANGED tree_ret

\* GetLeafPage in a read mode: ReleaseLatch(false), before Latch(page, false).
ReleaseRootId(t) ==
  /\ thr[t].pc = "fetched"
  /\ thr' = [thr EXCEPT ![t].root_r = FALSE, ![t].pc = "latch"]
  /\ UNCHANGED tree_vars

\* The child GetLeafPage goes to from an internal page.
NextPageId(page, mode, key) ==
  IF mode = "SEARCH_LEFTMOST" THEN page.array_[1].second
  ELSE IF mode = "SEARCH_RIGHTMOST" THEN page.array_[GetSize(page)].second
  ELSE InternalGetValue(page, key)

WriteCrab_HandOverHand(me, current, mode) == <<>>

\* The page set after a write latch on current: AddIntoPageSet(page) for the parent, then
\* ReleaseLatch(transaction) when current is safe.
WriteCrab(me, current, mode) ==
  LET with_parent == IF me.prev # 0 THEN Append(me.page_set, me.prev) ELSE me.page_set
  IN IF IsSafe(current, mode) THEN <<>> ELSE with_parent

\* Latch(page, is_dirty) of GetLeafPage, on the root page or on next_page, and the
\* crabbing that follows it: a reader lets go of the parent; a writer puts the parent into
\* the page set and, when the page is safe, releases the whole page set.
LatchPage(t) ==
  LET me == thr[t]
      p == me.page
      mode == ModeOf(me.op)
  IN /\ me.pc = "latch"
     /\ tree_fault = NoFault
     /\ IF p \notin DOMAIN tree_pages
        THEN thr' = [thr EXCEPT ![t].pc = "fault", ![t].ret = "latch of a deleted page"]
        ELSE LET current == tree_pages[p]
                 latched ==
                   IF IsDirty(mode)
                   THEN [me EXCEPT !.w_cur = p,
                                   !.page_set = WriteCrab(me, current, mode),
                                   !.path = Append(@, p)]
                   ELSE [me EXCEPT !.r_held = (@ \cup {p}) \ {me.prev},
                                   !.path = Append(@, p)]
             IN /\ WHolders(p) = {}
                /\ IsDirty(mode) => RHolders(p) = {}
                /\ thr' = [thr EXCEPT ![t] =
                             IF IsLeafPage(current) THEN [latched EXCEPT !.pc = "leaf"]
                             ELSE IF GetSize(current) = 0
                             THEN [latched EXCEPT !.pc = "fault", !.ret = "ValueAt past size"]
                             ELSE [latched EXCEPT !.page = NextPageId(current, mode, me.key),
                                                  !.prev = p]]
     /\ UNCHANGED tree_vars

\* The pages a remove changes beside those the thread has latched: the siblings
\* CoalesceOrRedistribute latches.
SiblingsOf(t, after) ==
  {p \in DOMAIN tree_pages :
     /\ thr[t].w_cur # p
     /\ ~InPageSet(t, p)
     /\ \/ p \notin DOMAIN after.pages
        \/ after.pages[p].array_ # tree_pages[p].array_}

Released(me, ret) ==
  [me EXCEPT !.pc = "idle", !.page = 0, !.prev = 0, !.page_set = <<>>, !.w_cur = 0, !.ret = ret]

\* What the call does once GetLeafPage has returned the leaf, up to its return.
AtLeaf(t) ==
  LET me == thr[t]
      leaf_id == me.page
  IN /\ me.pc = "leaf"
     /\ tree_fault = NoFault
     /\ CASE me.op = "GetValue" ->
               /\ thr' = [thr EXCEPT ![t] =
                            [Released(me, IF LeafGetValue(tree_pages[leaf_id], me.key).find
                                          THEN "true" ELSE "false")
                               EXCEPT !.r_held = @ \ {leaf_id}]]
               /\ UNCHANGED <<tree_pages, root_page_id_, tree_next_page_id, tree_fault, tree_kv, header_record>>
          [] me.op \in {"Begin", "End"} ->
               /\ thr' = [thr EXCEPT ![t] =
                            [Released(me, "iterator")
                               EXCEPT !.it_leaf = leaf_id,
                                      !.it_index = IF me.op = "Begin" THEN 0
                                                   ELSE GetSize(tree_pages[leaf_id])]]
               /\ UNCHANGED <<tree_pages, root_page_id_, tree_next_page_id, tree_fault, tree_kv, header_record>>
          [] me.op = "BeginAt" ->
               LET r == LeafGetKeyIndex(tree_pages[leaf_id], me.key)
               IN /\ thr' = [thr EXCEPT ![t] =
                               [Released(me, "iterator")
                                  EXCEPT !.it_leaf = IF r.find THEN leaf_id ELSE 0,
                                         !.it_index = IF r.find THEN r.index ELSE 0]]
                  /\ UNCHANGED <<tree_pages, root_page_id_, tree_next_page_id, tree_fault, tree_kv, header_record>>
          [] me.op = "Insert" ->
               LET after == InsertAtLeaf(TreeNow, leaf_id, me.key, 1)
               IN /\ TreeAfter(after)
                  /\ tree_kv' = IF after.fault = NoFault /\ after.ret
                                THEN [tree_kv EXCEPT ![me.key] = 1] ELSE tree_kv
                  /\ thr' = [thr EXCEPT ![t] =
                               Released(me, IF after.ret THEN "true" ELSE "false")]
          [] me.op = "Remove" ->
               LET after == RemoveAtLeaf(TreeNow, leaf_id, me.key)
               IN /\ \A p \in SiblingsOf(t, after) : WHolders(p) = {} /\ RHolders(p) = {}
                  /\ TreeAfter(after)
                  /\ tree_kv' = IF after.fault = NoFault
                                THEN [tree_kv EXCEPT ![me.key] = 0] ELSE tree_kv
                  /\ thr' = [thr EXCEPT ![t] = Released(me, "void")]
     /\ UNCHANGED tree_ret

\* ---- IndexIterator: the iterator a Begin or End call returned to thread t ----
\* operator++ on an iterator that is not at the end of its leaf's entries: past the last
\* slot of a leaf with a successor it fetches the next leaf and unpins the current one.
\* Neither branch calls RLatch or RUnlatch.
IteratorNext(t) ==
  LET me == thr[t]
  IN /\ me.pc = "idle"
     /\ me.ret = "iterator"
     /\ me.it_leaf # 0
     /\ tree_fault = NoFault
     /\ IF me.it_leaf \notin DOMAIN tree_pages
        THEN /\ tree_fault' = "FetchPage of a deleted page"
             /\ UNCHANGED thr
        ELSE LET leaf_page_ == tree_pages[me.it_leaf]
             IN /\ me.it_index < GetSize(leaf_page_)
                /\ thr' = [thr EXCEPT ![t] =
                             IF me.it_index = GetSize(leaf_page_) - 1
                                /\ leaf_page_.next_page_id_ # INVALID_PAGE_ID
                             THEN [me EXCEPT !.it_leaf = leaf_page_.next_page_id_, !.it_index = 0]
                             ELSE [me EXCEPT !.it_index = @ + 1]]
                /\ UNCHANGED tree_fault
     /\ UNCHANGED <<tree_pages, root_page_id_, tree_next_page_id, tree_ret, tree_kv, header_record>>

\* ~IndexIterator: UnpinPage of the current leaf, and nothing else.
IteratorDestroy(t) ==
  /\ thr[t].pc = "idle"
  /\ thr[t].ret = "iterator"
  /\ thr' = [thr EXCEPT ![t].ret = "destroyed", ![t].it_leaf = 0, ![t].it_index = 0]
  /\ UNCHANGED tree_vars

InitThreads(threads) == thr = [t \in threads |-> IdleThread]

\* The trees the concurrent calls start from: those a single thread builds from the empty
\* tree by inserting these keys in order.
RECURSIVE BuildTree(_, _)
BuildTree(t, keys) ==
  IF keys = <<>> THEN t ELSE BuildTree(BPlusTreeInsert(t, Head(keys), 1), Tail(keys))

EmptyTree ==
  [pages |-> <<>>, root_page_id_ |-> INVALID_PAGE_ID, next |-> 1, deleted |-> {},
   fault |-> NoFault, ret |-> TRUE, header |-> NoRecord]

InitialInserts == {<<>>, <<2, 4>>, <<1, 2, 4, 5>>, <<1, 2, 4, 5, 6, 7>>}

InitLatchTree ==
  \E keys \in InitialInserts :
    LET t == BuildTree(EmptyTree, keys)
    IN /\ root_page_id_ = t.root_page_id_
       /\ tree_pages = t.pages
       /\ tree_next_page_id = t.next
       /\ tree_fault = NoFault
       /\ tree_ret = TreeReturned("none", 0, TRUE, 0, <<>>)
       /\ tree_kv = [k \in LatchKeys |-> IF \E i \in 1..Len(keys) : keys[i] = k THEN 1 ELSE 0]
       /\ header_record = t.header

\* ---- the pages a call marks dirty: UnpinPage(page_id, true) ----
\* ReleaseLatch(page, is_dirty, is_success): the page is unpinned with is_dirty, but with
\* false when the call did not succeed.  ReleaseLatch(page_id, ...) fetches the page for
\* it and unpins that pin with false.
ReleaseLatchDirties(page_id, is_dirty, is_success) ==
  IF ~is_success THEN {} ELSE IF is_dirty THEN {page_id} ELSE {}

\* ReleaseLatch(transaction, is_dirty): every page of the page set is unpinned with
\* is_dirty (nullptr is no page).
ReleaseSetDirties(page_set, is_dirty) ==
  IF is_dirty THEN page_set \ {ROOT_PAGE_ID_LATCH} ELSE {}

\* The page set Insert's GetLeafPage ends with at the leaf: a page joins when the descent
\* moves to its child, and the set is released (with is_dirty = false) at a safe page.
RECURSIVE PageSetAtLeaf(_, _, _, _, _)
PageSetAtLeaf(pages, page_id, key, page_set, fuel) ==
  IF page_id \notin DOMAIN pages \/ fuel = 0 THEN page_set
  ELSE LET current == pages[page_id]
           kept == IF IsSafe(current, "INSERT") THEN {} ELSE page_set
       IN IF IsLeafPage(current) \/ GetSize(current) = 0 THEN kept
          ELSE PageSetAtLeaf(pages, InternalGetValue(current, key), key,
                             kept \cup {page_id}, fuel - 1)

\* The pages Insert(key, value) unpins with is_dirty = true.
InsertDirties(t, key, value) ==
  IF t.root_page_id_ = INVALID_PAGE_ID THEN {t.next}
  ELSE LET leaf_id == GetLeafPage(t, "INSERT", key)
           page_set == PageSetAtLeaf(t.pages, t.root_page_id_, key, {ROOT_PAGE_ID_LATCH}, t.next)
       IN IF leaf_id = INVALID_PAGE_ID THEN {}
          ELSE LET ins == LeafInsert(t.pages[leaf_id], key, value)
               IN IF ~ins.ret
                  THEN ReleaseSetDirties(page_set, FALSE)
                         \cup ReleaseLatchDirties(leaf_id, IsDirty("INSERT"), FALSE)
                  ELSE IF GetSize(ins.page) < GetMaxSize(ins.page)
                  THEN ReleaseSetDirties(page_set, FALSE)
                         \cup ReleaseLatchDirties(leaf_id, IsDirty("INSERT"), TRUE)
                  ELSE ReleaseSetDirties(page_set, TRUE)
                         \cup ReleaseLatchDirties(leaf_id, IsDirty("INSERT"), TRUE)
                         \cup (t.next .. (BPlusTreeInsert(t, key, value).next - 1))

\* ---- Pins of the B+tree calls on the buffer pool ----
\* The ledger of one call: for every page id the FetchPage / NewPage calls of the call so far
\* minus its successful UnpinPage calls.  The pool is taken to be large enough for every
\* fetch to succeed.
HEADER_PAGE_ID == 0

NoPins == [p \in 0..(MaxTreePageId + 4) |-> 0]

\* FetchPage(p) or NewPage returning p: pin_count + 1.
Pinned(pins, p) == [pins EXCEPT ![p] = @ + 1]

\* UnpinPage(p, _): pin_count - 1, nothing when the count is 0.
Unpinned(pins, p) == [pins EXCEPT ![p] = IF @ > 0 THEN @ - 1 ELSE @]

\* ReleaseLatch(transaction, _): every page of the page set is unpinned once.
RECURSIVE ReleaseSetPins(_, _)
ReleaseSetPins(pins, page_set) ==
  IF page_set = {} THEN pins
  ELSE LET p == CHOOSE x \in page_set : TRUE
       IN ReleaseSetPins(Unpinned(pins, p), page_set \ {p})

\* ReleaseLatch(page_id, mode, _): FetchPage, the unpin of ReleaseLatch(page, ..), UnpinPage.
ReleaseLatchPins(pins, page_id) == Unpinned(Unpinned(Pinned(pins, page_id), page_id), page_id)

\* UpdateRootPageId: the header page is fetched and unpinned.
UpdateRootPageIdPins(pins) == Unpinned(Pinned(pins, HEADER_PAGE_ID), HEADER_PAGE_ID)

\* GetLeafPage from the fetched page page_id on: the leaf reached, the ledger and the pages
\* of the transaction's page set.  A read descent unpins the parent once the child is
\* fetched; a write descent keeps it in the page set until a safe page is reached.
RECURSIVE GetLeafPagePins(_, _, _, _, _, _)
GetLeafPagePins(pages, page_id, mode, key, st, fuel) ==
  LET current == pages[page_id]
  IN IF IsLeafPage(current) \/ GetSize(current) = 0 \/ fuel = 0
     THEN [leaf |-> page_id, pins |-> st.pins, page_set |-> st.page_set]
     ELSE LET next_page_id == InternalGetValue(current, key)
              fetched == Pinned(st.pins, next_page_id)
              page_set == st.page_set \cup {page_id}
          IN IF next_page_id \notin DOMAIN pages
             THEN [leaf |-> INVALID_PAGE_ID, pins |-> st.pins, page_set |-> st.page_set]
             ELSE IF ~IsDirty(mode)
             THEN GetLeafPagePins(pages, next_page_id, mode, key,
                                  [pins |-> Unpinned(fetched, page_id), page_set |-> {}], fuel - 1)
             ELSE IF IsSafe(pages[next_page_id], mode)
             THEN GetLeafPagePins(pages, next_page_id, mode, key,
                                  [pins |-> ReleaseSetPins(fetched, page_set), page_set |-> {}],
                                  fuel - 1)
             ELSE GetLeafPagePins(pages, next_page_id, mode, key,
                                  [pins |-> fetched, page_set |-> page_set], fuel - 1)

DescentPins(t, mode, key) ==
  GetLeafPagePins(t.pages, t.root_page_id_, mode, key,
                  [pins |-> Pinned(NoPins, t.root_page_id_), page_set |-> {}], t.next)

\* GetValue(key).
GetValuePins(t, key) ==
  IF t.root_page_id_ = INVALID_PAGE_ID THEN NoPins
  ELSE LET d == DescentPins(t, "SEARCH", key)
       IN ReleaseLatchPins(d.pins, d.leaf)

\* InsertIntoParent, with the ledger and the page set of the call.
RECURSIVE InsertIntoParentPins(_, _, _, _, _, _)
InsertIntoParentPins(t, old_id, new_id, risen_key, page_set, pins) ==
  LET old_page == t.pages[old_id]
  IN IF IsRootPage(old_page)
     THEN LET root_id == t.next
          IN ReleaseSetPins(Unpinned(UpdateRootPageIdPins(Pinned(pins, root_id)), root_id),
                            page_set)
     ELSE LET parent_id == old_page.parent_page_id_
              fetched == Pinned(pins, parent_id)
              ins == InternalInsert(t.pages[parent_id], risen_key, new_id)
              t1 == [t EXCEPT !.pages[parent_id] = ins.page]
          IN IF GetSize(ins.page) <= InternalMaxSize
             THEN Unpinned(ReleaseSetPins(fetched, page_set), parent_id)
             ELSE LET new_parent_id == t1.next
                      t2 == Split(t1, parent_id)
                  IN Unpinned(InsertIntoParentPins(t2, parent_id, new_parent_id,
                                                   t2.pages[new_parent_id].array_[1].first,
                                                   page_set, Pinned(fetched, new_parent_id)),
                              new_parent_id)

\* Insert(key, value).
InsertPins(t, key, value) ==
  IF t.root_page_id_ = INVALID_PAGE_ID
  THEN Unpinned(UpdateRootPageIdPins(Pinned(NoPins, t.next)), t.next)
  ELSE LET d == DescentPins(t, "INSERT", key)
           ins == LeafInsert(t.pages[d.leaf], key, value)
           t1 == [t EXCEPT !.pages[d.leaf] = ins.page]
       IN IF ~ins.ret \/ GetSize(ins.page) < GetMaxSize(ins.page)
          THEN ReleaseLatchPins(ReleaseSetPins(d.pins, d.page_set), d.leaf)
          ELSE LET new_leaf_id == t1.next
                   t2 == Split(t1, d.leaf)
                   up == InsertIntoParentPins(t2, d.leaf, new_leaf_id,
                                              t2.pages[new_leaf_id].array_[1].first,
                                              d.page_set, Pinned(d.pins, new_leaf_id))
               IN Unpinned(ReleaseLatchPins(up, d.leaf), new_leaf_id)

\* CoalesceOrRedistribute, with the ledger and the page set of the call.
RECURSIVE CoalesceOrRedistributePins(_, _, _)
CoalesceOrRedistributePins(t, page_id, st) ==
  LET page == t.pages[page_id]
      stay == [pins |-> st.pins, page_set |-> st.page_set, should_delete |-> FALSE]
  IN IF t.fault # NoFault \/ GetSize(page) >= GetMinSize(page) THEN stay
     ELSE IF IsRootPage(page) /\ IsLeafPage(page)
     THEN [pins |-> UpdateRootPageIdPins(st.pins), page_set |-> st.page_set,
           should_delete |-> TRUE]
     ELSE IF IsRootPage(page) /\ GetSize(page) = 1
     THEN LET child == page.array_[1].second
          IN [pins |-> Unpinned(UpdateRootPageIdPins(Pinned(st.pins, child)), child),
              page_set |-> st.page_set, should_delete |-> TRUE]
     ELSE IF page.parent_page_id_ \notin DOMAIN t.pages THEN stay
     ELSE LET parent_id == page.parent_page_id_
              parent == t.pages[parent_id]
              index == GetValueIndex(parent, page_id).index
              from_prev == index # 0
              sibling_index == index + (IF from_prev THEN -1 ELSE 1)
          IN IF sibling_index >= GetSize(parent) THEN stay
             ELSE LET sibling_id == parent.array_[sibling_index + 1].second
                      fetched == Pinned(Pinned(st.pins, parent_id), sibling_id)
                  IN IF sibling_id \notin DOMAIN t.pages \/ sibling_id = page_id
                        \/ t.pages[sibling_id].page_type_ # page.page_type_
                     THEN stay
                     ELSE IF GetSize(t.pages[sibling_id]) > GetMinSize(t.pages[sibling_id])
                     THEN [pins |-> Unpinned(Unpinned(fetched, sibling_id), parent_id),
                           page_set |-> st.page_set, should_delete |-> FALSE]
                     ELSE LET merged == Coalesce(t, page_id, parent_id, sibling_id, index, from_prev)
                              here == IF ~from_prev
                                      THEN [pins |-> Unpinned(fetched, parent_id),
                                            page_set |-> st.page_set \cup {sibling_id}]
                                      ELSE [pins |-> Unpinned(Unpinned(fetched, parent_id), sibling_id),
                                            page_set |-> st.page_set]
                              up == CoalesceOrRedistributePins(merged, parent_id, here)
                          IN [pins |-> up.pins, page_set |-> up.page_set,
                              should_delete |-> from_prev]

\* Remove(key).
RemovePins(t, key) ==
  IF t.root_page_id_ = INVALID_PAGE_ID THEN NoPins
  ELSE LET d == DescentPins(t, "DELETE", key)
           leaf == LeafRemove(t.pages[d.leaf], key)
           t1 == [t EXCEPT !.pages[d.leaf] = leaf]
       IN IF GetSize(leaf) = GetSize(t.pages[d.leaf]) \/ GetSize(leaf) >= GetMinSize(leaf)
          THEN ReleaseLatchPins(ReleaseSetPins(d.pins, d.page_set), d.leaf)
          ELSE LET c == CoalesceOrRedistributePins(t1, d.leaf,
                                                   [pins |-> d.pins, page_set |-> d.page_set])
               IN IF c.should_delete
                  THEN ReleaseSetPins(Unpinned(Pinned(c.pins, d.leaf), d.leaf),
                                      c.page_set \cup {d.leaf})
                  ELSE ReleaseSetPins(ReleaseLatchPins(c.pins, d.leaf), c.page_set)

\* ========================================================================
\* SPECIFICATIONS
\* ========================================================================
InitLM == InitLMWith(1..NumTxns, 1..NumTables, 1..NumRows) /\ InitBPM /\ InitTree /\ InitThreads({}) /\ InitUnits

NextLM ==
  \/ \E t \in Txns, mode \in Modes, oid \in Tables : LockTable(t, mode, oid) /\ UNCHANGED <<bpm_vars, tree_vars, latch_vars, unit_vars>>
  \/ \E t \in Txns, oid \in Tables : UnlockTable(t, oid) /\ UNCHANGED <<bpm_vars, tree_vars, latch_vars, unit_vars>>
  \/ \E t \in Txns, mode \in Modes, oid \in Tables, rid \in Rows :
       LockRow(t, mode, oid, rid) /\ UNCHANGED <<bpm_vars, tree_vars, latch_vars, unit_vars>>
  \/ \E t \in Txns, oid \in Tables, rid \in Rows : UnlockRow(t, oid, rid) /\ UNCHANGED <<bpm_vars, tree_vars, latch_vars, unit_vars>>
  \/ \E t \in Txns : WaitLoop(t) /\ UNCHANGED <<bpm_vars, tree_vars, latch_vars, unit_vars>>
  \/ \E t \in Txns : SetAborted(t) /\ UNCHANGED <<bpm_vars, tree_vars, latch_vars, unit_vars>>
  \/ \E t \in Txns : SetCommitted(t) /\ UNCHANGED <<bpm_vars, tree_vars, latch_vars, unit_vars>>

\* Table locks and row locks, NumTxns transactions.
SpecLM == InitLM /\ [][NextLM]_vars

\* A thread woken from cv_.wait runs: a blocked transaction takes a turn of its wait loop
\* sooner or later.
FairLM == \A t \in 1..NumTxns : WF_vars(WaitLoop(t) /\ UNCHANGED <<bpm_vars, tree_vars, latch_vars, unit_vars>>)

SpecLMFair == InitLM /\ [][NextLM]_vars /\ FairLM

\* A thread that notify_all has woken from cv_.wait runs its loop sooner or later; a
\* spurious wake-up may happen, but nothing promises one.
FairWake ==
  \A t \in 1..NumTxns :
    WF_vars(lm_notified[t] /\ WaitLoop(t) /\ UNCHANGED <<bpm_vars, tree_vars, latch_vars, unit_vars>>)

SpecLMWake == InitLM /\ [][NextLM]_vars /\ FairWake

\* Table locks alone, one transaction more: a holder, a waiter and a newcomer.
InitLMTables == InitLMWith(1..(NumTxns + 1), 1..NumTables, {}) /\ InitBPM /\ InitTree /\ InitThreads({}) /\ InitUnits

NextLMTables ==
  \/ \E t \in Txns, mode \in Modes, oid \in Tables : LockTable(t, mode, oid) /\ UNCHANGED <<bpm_vars, tree_vars, latch_vars, unit_vars>>
  \/ \E t \in Txns, oid \in Tables : UnlockTable(t, oid) /\ UNCHANGED <<bpm_vars, tree_vars, latch_vars, unit_vars>>
  \/ \E t \in Txns : WaitLoop(t) /\ UNCHANGED <<bpm_vars, tree_vars, latch_vars, unit_vars>>
  \/ \E t \in Txns : SetAborted(t) /\ UNCHANGED <<bpm_vars, tree_vars, latch_vars, unit_vars>>

SpecLMTables == InitLMTables /\ [][NextLMTables]_vars

\* The buffer pool alone.  Callers fetch, unpin, flush and delete the page ids AllocatePage
\* has handed out.
InitBPMOnly == InitLMWith({}, {}, {}) /\ InitBPM /\ InitTree /\ InitThreads({}) /\ InitUnits

NextBPM ==
  \/ NewPgImp /\ UNCHANGED <<lm_vars, tree_vars, latch_vars, unit_vars>>
  \/ \E page_id \in 0..(next_page_id_ - 1) : FetchPgImp(page_id) /\ UNCHANGED <<lm_vars, tree_vars, latch_vars, unit_vars>>
  \/ \E page_id \in 0..(next_page_id_ - 1), is_dirty \in BOOLEAN :
       UnpinPgImp(page_id, is_dirty) /\ UNCHANGED <<lm_vars, tree_vars, latch_vars, unit_vars>>
  \/ \E page_id \in 0..(next_page_id_ - 1) \cup {INVALID_PAGE_ID} :
       FlushPgImp(page_id) /\ UNCHANGED <<lm_vars, tree_vars, latch_vars, unit_vars>>
  \/ FlushAllPgsImp /\ UNCHANGED <<lm_vars, tree_vars, latch_vars, unit_vars>>
  \/ \E page_id \in 0..(next_page_id_ - 1) : DeletePgImp(page_id) /\ UNCHANGED <<lm_vars, tree_vars, latch_vars, unit_vars>>

SpecBPM == InitBPMOnly /\ [][NextBPM]_vars

\* The B+tree alone, its calls one after another.
InitTreeOnly == InitLMWith({}, {}, {}) /\ InitBPM /\ InitTree /\ InitThreads({}) /\ InitUnits

NextTree ==
  \/ \E key \in Keys, value \in Values :
       TreeInsert(key, value) /\ UNCHANGED <<lm_vars, bpm_vars, latch_vars, unit_vars>>
  \/ \E key \in Keys : TreeRemove(key) /\ UNCHANGED <<lm_vars, bpm_vars, latch_vars, unit_vars>>
  \/ \E key \in Keys : TreeGetValue(key) /\ UNCHANGED <<lm_vars, bpm_vars, latch_vars, unit_vars>>
  \/ TreeIterate /\ UNCHANGED <<lm_vars, bpm_vars, latch_vars, unit_vars>>

\* The tree with scans from a key.
NextTreeScan ==
  \/ \E key \in Keys, value \in Values :
       TreeInsert(key, value) /\ UNCHANGED <<lm_vars, bpm_vars, latch_vars, unit_vars>>
  \/ \E key \in Keys : TreeRemove(key) /\ UNCHANGED <<lm_vars, bpm_vars, latch_vars, unit_vars>>
  \/ \E key \in Keys : TreeIterateFrom(key) /\ UNCHANGED <<lm_vars, bpm_vars, latch_vars, unit_vars>>

SpecTreeScan == InitTreeOnly /\ [][NextTreeScan]_vars

SpecTree == InitTreeOnly /\ [][NextTree]_vars

\* The tree under concurrent calls.
LatchCalls ==
  ({"GetValue", "Insert", "Remove", "BeginAt"} \X LatchKeys) \cup ({"Begin", "End"} \X {0})

InitLatch == InitLMWith({}, {}, {}) /\ InitBPM /\ InitLatchTree /\ InitThreads(1..NumThreads) /\ InitUnits

NextLatch ==
  \/ \E t \in Threads, call \in LatchCalls :
       LatchRootId(t, call[1], call[2]) /\ UNCHANGED <<lm_vars, bpm_vars, unit_vars>>
  \/ \E t \in Threads : ReleaseRootId(t) /\ UNCHANGED <<lm_vars, bpm_vars, unit_vars>>
  \/ \E t \in Threads : LatchPage(t) /\ UNCHANGED <<lm_vars, bpm_vars, unit_vars>>
  \/ \E t \in Threads : AtLeaf(t) /\ UNCHANGED <<lm_vars, bpm_vars, unit_vars>>
  \/ \E t \in Threads : IteratorNext(t) /\ UNCHANGED <<lm_vars, bpm_vars, unit_vars>>
  \/ \E t \in Threads : IteratorDestroy(t) /\ UNCHANGED <<lm_vars, bpm_vars, unit_vars>>

SpecLatch == InitLatch /\ [][NextLatch]_vars

\* The work at the leaf can be done: the thread stands on its leaf and, for a Remove, the
\* siblings CoalesceOrRedistribute latches are free.
CanWorkAtLeaf(t) ==
  /\ thr[t].pc = "leaf"
  /\ tree_fault = NoFault
  /\ thr[t].op = "Remove" =>
       \A p \in SiblingsOf(t, RemoveAtLeaf(TreeNow, thr[t].page, thr[t].key)) :
         WHolders(p) = {} /\ RHolders(p) = {}

\* A thread that is inside a call runs: whenever its next step (the release of the root-id
\* latch, a page latch that is free, the work at the leaf) stays possible, it is taken.
\* For the work at the leaf weak fairness is written out, with CanWorkAtLeaf for ENABLED.
FairLatch ==
  \A t \in 1..NumThreads :
    /\ WF_vars((ReleaseRootId(t) \/ LatchPage(t)) /\ UNCHANGED <<lm_vars, bpm_vars, unit_vars>>)
    /\ \/ []<>(~CanWorkAtLeaf(t))
       \/ []<><<AtLeaf(t) /\ UNCHANGED <<lm_vars, bpm_vars, unit_vars>>>>_vars

SpecLatchFair == InitLatch /\ [][NextLatch]_vars /\ FairLatch


\* The replacer alone.
\* The buffer pool with a caller that writes the bytes of the pages 0 .. MaxDataPage: pages are
\* created, fetched, unpinned, flushed and written.  (DeletePgImp drops a page's bytes on
\* purpose and is not part of this specification.)
NextBPMData ==
  \/ NewPgImp /\ UNCHANGED <<lm_vars, tree_vars, latch_vars, unit_vars>>
  \/ \E page_id \in 0..(next_page_id_ - 1) : FetchPgImp(page_id) /\ UNCHANGED <<lm_vars, tree_vars, latch_vars, unit_vars>>
  \/ \E page_id \in 0..(next_page_id_ - 1), is_dirty \in BOOLEAN :
       /\ UnpinPgImp(page_id, is_dirty)
       /\ page_hist' = IF is_dirty /\ bpm_ret'.ok
                       THEN [page_hist EXCEPT ![page_id] = pages_[Find(page_table_, page_id).value].data_]
                       ELSE page_hist
       /\ UNCHANGED <<lm_vars, tree_vars, latch_vars, access_log, kv_hist>>
  \/ \E page_id \in 0..(next_page_id_ - 1) \cup {INVALID_PAGE_ID} :
       FlushPgImp(page_id) /\ UNCHANGED <<lm_vars, tree_vars, latch_vars, unit_vars>>
  \/ \E page_id \in 0..SetMin({MaxDataPage, next_page_id_ - 1}), d \in DataValues :
       /\ WriteData(page_id, d)
       /\ page_hist' = [page_hist EXCEPT ![page_id] = -1]
       /\ UNCHANGED <<lm_vars, tree_vars, latch_vars, access_log, kv_hist>>

SpecBPMData == InitBPMOnly /\ [][NextBPMData]_vars

InitLRUKOnly == InitLMWith({}, {}, {}) /\ InitLRUK /\ InitTree /\ InitThreads({}) /\ InitUnits

NextLRUK ==
  \/ \E frame_id \in 0..(ReplacerSize - 1) :
       LrukRecordAccess(frame_id) /\ UNCHANGED <<lm_vars, tree_vars, latch_vars, kv_hist, page_hist>>
  \/ \E frame_id \in 0..(ReplacerSize - 1), set_evictable \in BOOLEAN :
       LrukSetEvictable(frame_id, set_evictable) /\ UNCHANGED <<lm_vars, tree_vars, latch_vars, kv_hist, page_hist>>
  \/ LrukEvict /\ UNCHANGED <<lm_vars, tree_vars, latch_vars, kv_hist, page_hist>>
  \/ \E frame_id \in 0..(ReplacerSize - 1) :
       LrukRemove(frame_id) /\ UNCHANGED <<lm_vars, tree_vars, latch_vars, kv_hist, page_hist>>

SpecLRUK == InitLRUKOnly /\ [][NextLRUK]_vars

\* The hash table alone.
NextEHT ==
  \/ \E key \in HashKeys, value \in HashValues :
       EhtInsert(key, value) /\ UNCHANGED <<lm_vars, tree_vars, latch_vars, access_log, page_hist>>
  \/ \E key \in HashKeys : EhtRemove(key) /\ UNCHANGED <<lm_vars, tree_vars, latch_vars, access_log, page_hist>>
  \/ \E key \in HashKeys : EhtFind(key) /\ UNCHANGED <<lm_vars, tree_vars, latch_vars, access_log, page_hist>>

SpecEHT == InitBPMOnly /\ [][NextEHT]_vars


\* ------------------------------------------------------------------------
\* Properties of the lock manager
\* ------------------------------------------------------------------------
QueueIds == DOMAIN arrival

\* The queue of a table or a row in given maps; an object never locked has no queue yet.
QueueAt(tmap, rmap, qid) ==
  LET m == IF qid[1] = "table" THEN tmap ELSE rmap
  IN IF qid[2] \in DOMAIN m THEN m[qid[2]] ELSE EmptyQueue

Queue(qid) == QueueAt(table_lock_map_, row_lock_map_, qid)

QueueNext(qid) == QueueAt(table_lock_map_', row_lock_map_', qid)

\* The compatibility matrix as the specification states it.
Compatible(a, b) ==
  CASE a = "IS" -> b \in {"IS", "IX", "S", "SIX"}
    [] a = "IX" -> b \in {"IS", "IX"}
    [] a = "S" -> b \in {"IS", "S"}
    [] a = "SIX" -> b = "IS"
    [] a = "X" -> FALSE

\* C1: in every reachable state, in every table queue and every row queue, any two requests
\* granted at the same time to different transactions have modes the matrix calls compatible.
C1_GrantedCompatible ==
  \A qid \in QueueIds :
    LET q == Queue(qid).request_queue_
    IN \A i, j \in 1..Len(q) :
         (i # j /\ q[i].granted_ /\ q[j].granted_ /\ q[i].txn_id_ # q[j].txn_id_)
           => Compatible(q[i].lock_mode_, q[j].lock_mode_)

\* Two transactions hold granted locks of different modes in one queue.
C1_Witness ==
  \E qid \in QueueIds :
    LET q == Queue(qid).request_queue_
    IN \E i, j \in 1..Len(q) :
         /\ q[i].granted_ /\ q[j].granted_ /\ q[i].txn_id_ # q[j].txn_id_
         /\ q[i].lock_mode_ # q[j].lock_mode_

\* The granted requests of a transaction: (queue, mode).
GrantedOf(tmap, rmap, t) ==
  UNION {LET q == QueueAt(tmap, rmap, qid).request_queue_
         IN {<<qid, q[i].lock_mode_>> : i \in {k \in 1..Len(q) : q[k].txn_id_ = t /\ q[k].granted_}}
         : qid \in QueueIds}

SharedUnderReadCommitted(t, mode) ==
  isolation_level[t] = "READ_COMMITTED" /\ mode \in {"S", "IS"}

C7_Step ==
  \A t \in Txns :
    txn_state[t] = "SHRINKING" =>
      /\ \A g \in GrantedOf(table_lock_map_', row_lock_map_', t)
                    \ GrantedOf(table_lock_map_, row_lock_map_, t) :
           SharedUnderReadCommitted(t, g[2])
      /\ \A m \in Modes :
           table_lock_set'[t][m] \subseteq table_lock_set[t][m] \/ SharedUnderReadCommitted(t, m)
      /\ \A m \in {"S", "X"}, oid \in Tables :
           row_lock_set'[t][m][oid] \subseteq row_lock_set[t][m][oid]
             \/ SharedUnderReadCommitted(t, m)
      /\ \A mode \in Modes, oid \in Tables :
           (/\ ~SharedUnderReadCommitted(t, mode)
            /\ LockTable(t, mode, oid) \/ \E rid \in Rows : LockRow(t, mode, oid, rid))
             => /\ txn_state'[t] = "ABORTED"
                /\ UNCHANGED <<table_lock_map_, row_lock_map_, table_lock_set, row_lock_set>>

\* C7: once an unlock has moved a transaction to SHRINKING, no step grants it a lock (in a
\* queue or in its lock sets) other than S or IS under READ_COMMITTED, and every other
\* lock_table or lock_row call it makes sets it ABORTED and leaves queues and lock sets alone.
C7_NoLockAfterShrinking == [][C7_Step]_vars

\* A transaction in SHRINKING asked for a lock and was aborted for it.
C7_Witness == \E t \in Txns : abort_reason[t] = "LOCK_ON_SHRINKING"

\* Position of a transaction in the order of arrival of a queue.
ArrivalPos(arr, t) == CHOOSE i \in 1..Len(arr) : arr[i] = t

C8_Step ==
  \A qid \in QueueIds :
    LET q == Queue(qid).request_queue_
        q2 == QueueNext(qid).request_queue_
    IN \A t2 \in Txns :
         \* a request of t2 that is no upgrade is granted in this step
         (/\ \E j \in 1..Len(q2) : q2[j].txn_id_ = t2 /\ q2[j].granted_
          /\ \A i \in 1..Len(q) : q[i].txn_id_ = t2 => (~q[i].granted_ /\ ~q[i].upgrade_))
           => \A k \in 1..Len(q2) :
                ~q2[k].granted_ =>
                  ArrivalPos(arrival'[qid], q2[k].txn_id_) > ArrivalPos(arrival'[qid], t2)

\* C8: within a queue, a step never grants a request that is no upgrade while a request
\* enqueued before it is still ungranted; in particular a request that arrives behind an
\* ungranted request waits, whatever its mode.
C8_FifoGrant == [][C8_Step]_vars

\* A request compatible with everything granted waits behind an earlier ungranted request.
C8_Witness ==
  \E qid \in QueueIds :
    LET q == Queue(qid).request_queue_
    IN \E i, j \in 1..Len(q) :
         /\ i < j /\ ~q[i].granted_ /\ ~q[j].granted_ /\ ~q[j].upgrade_
         /\ \E g \in 1..Len(q) : q[g].granted_
         /\ \A g \in 1..Len(q) : q[g].granted_ => Compatible(q[j].lock_mode_, q[g].lock_mode_)

\* The ungranted upgrade requests of a queue.
PendingUpgrades(q) == {i \in 1..Len(q) : ~q[i].granted_ /\ q[i].upgrade_}

C9_Inv ==
  \A qid \in QueueIds :
    LET lrq == Queue(qid)
        q == lrq.request_queue_
    IN /\ Cardinality(PendingUpgrades(q)) <= 1
       /\ \A i \in PendingUpgrades(q) : lrq.upgrading_ = q[i].txn_id_

\* t holds a lock of another mode in the queue while another transaction's upgrade is pending.
C9_Pre(t, mode, qid) ==
  LET lrq == Queue(qid)
      q == lrq.request_queue_
  IN /\ \E i \in 1..Len(q) : q[i].txn_id_ = t /\ q[i].granted_ /\ q[i].lock_mode_ # mode
     /\ lrq.upgrading_ # INVALID_TXN_ID
     /\ lrq.upgrading_ # t

C9_Step ==
  \A t \in Txns, mode \in Modes, oid \in Tables :
    /\ (C9_Pre(t, mode, <<"table", oid>>) /\ LockTable(t, mode, oid))
         => /\ txn_state'[t] = "ABORTED"
            /\ IsolationCheck(t, mode) = "OK" => abort_reason'[t] = "UPGRADE_CONFLICT"
            /\ QueueNext(<<"table", oid>>) = Queue(<<"table", oid>>)
    /\ \A rid \in Rows :
         (C9_Pre(t, mode, <<"row", rid>>) /\ LockRow(t, mode, oid, rid))
           => /\ txn_state'[t] = "ABORTED"
              /\ RowCheck(t, mode, oid) = "OK" => abort_reason'[t] = "UPGRADE_CONFLICT"
              /\ QueueNext(<<"row", rid>>) = Queue(<<"row", rid>>)

AbortsWith(t, reason) ==
  /\ txn_state'[t] = "ABORTED"
  /\ abort_reason'[t] = reason
  /\ table_lock_map_' = table_lock_map_
  /\ row_lock_map_' = row_lock_map_
  /\ table_lock_set' = table_lock_set
  /\ row_lock_set' = row_lock_set

\* The rule of the isolation levels for a request of mode by t: the abort reason, or "OK".
IsolationRule(t, mode) ==
  CASE isolation_level[t] = "READ_UNCOMMITTED" ->
         IF mode \in {"S", "IS", "SIX"} THEN "LOCK_SHARED_ON_READ_UNCOMMITTED"
         ELSE IF txn_state[t] = "SHRINKING" THEN "LOCK_ON_SHRINKING" ELSE "OK"
    [] isolation_level[t] = "READ_COMMITTED" ->
         IF txn_state[t] = "SHRINKING" /\ mode \notin {"S", "IS"} THEN "LOCK_ON_SHRINKING"
         ELSE "OK"
    [] isolation_level[t] = "REPEATABLE_READ" ->
         IF txn_state[t] = "SHRINKING" THEN "LOCK_ON_SHRINKING" ELSE "OK"

\* C14: a request that reaches the isolation test of lock_table or lock_row (every
\* lock_table request; a lock_row request of mode S or X, the intention modes being refused
\* on rows before it) and that the rule forbids (READ_UNCOMMITTED: S, IS, SIX in any state,
\* X and IX when SHRINKING; READ_COMMITTED: all but S and IS when SHRINKING;
\* REPEATABLE_READ: all when SHRINKING) aborts with the reason of the rule, the state
\* becomes ABORTED and no request is added to any queue.
C14_Step ==
  /\ \A t \in Txns, mode \in Modes, oid \in Tables :
       (LockTable(t, mode, oid) /\ IsolationRule(t, mode) # "OK")
         => AbortsWith(t, IsolationRule(t, mode))
  /\ \A t \in Txns, mode \in {"S", "X"}, oid \in Tables, rid \in Rows :
       (LockRow(t, mode, oid, rid) /\ IsolationRule(t, mode) # "OK")
         => AbortsWith(t, IsolationRule(t, mode))

PermittedUpgrades ==
  ({"IS"} \X {"S", "X", "IX", "SIX"}) \cup ({"S"} \X {"X", "SIX"})
    \cup ({"IX"} \X {"X", "SIX"}) \cup ({"SIX"} \X {"X"})

\* The modes of the requests of t in a queue.
ModesOf(q, t) == {q[i].lock_mode_ : i \in {j \in 1..Len(q) : q[j].txn_id_ = t}}

\* t asks in queue qid for mode while its request there has another mode: a permitted
\* pair that reaches the test is taken as an upgrade (the held request leaves the queue,
\* a request of the new mode enters it); any other pair aborts t and leaves the queue as
\* it was, with INCOMPATIBLE_UPGRADE when the request reaches the test.
C15_Upgrade(t, mode, qid, reaches) ==
  LET q == Queue(qid).request_queue_
  IN \A held \in ModesOf(q, t) \ {mode} :
       IF <<held, mode>> \in PermittedUpgrades
       THEN reaches => /\ txn_state'[t] = txn_state[t]
                       /\ ModesOf(QueueNext(qid).request_queue_, t) = {mode}
       ELSE /\ txn_state'[t] = "ABORTED"
            /\ QueueNext(qid) = Queue(qid)
            /\ held \in ModesOf(QueueNext(qid).request_queue_, t)
            /\ reaches => AbortsWith(t, "INCOMPATIBLE_UPGRADE")

\* C15: a request by a transaction that already has a request of another mode on the same
\* object is taken as an upgrade only for IS -> S, X, IX, SIX; S -> X, SIX; IX -> X, SIX;
\* SIX -> X.  Every other pair aborts the transaction and leaves the held request in the
\* queue; the reason is INCOMPATIBLE_UPGRADE when the request passes the checks made
\* before (isolation level, row checks, no other upgrade pending in the queue).
C15_Step ==
  \A t \in Txns, mode \in Modes, oid \in Tables :
    /\ LockTable(t, mode, oid)
         => C15_Upgrade(t, mode, <<"table", oid>>,
                        IsolationCheck(t, mode) = "OK"
                          /\ Queue(<<"table", oid>>).upgrading_ = INVALID_TXN_ID)
    /\ \A rid \in Rows :
         LockRow(t, mode, oid, rid)
           => C15_Upgrade(t, mode, <<"row", rid>>,
                          RowCheck(t, mode, oid) = "OK"
                            /\ Queue(<<"row", rid>>).upgrading_ = INVALID_TXN_ID)

TableModesHeld(t, oid) ==
  LET q == Queue(<<"table", oid>>).request_queue_
  IN {q[i].lock_mode_ : i \in {j \in 1..Len(q) : q[j].txn_id_ = t /\ q[j].granted_}}

\* C16: lock_row with mode IS, IX or SIX aborts with ATTEMPTED_INTENTION_LOCK_ON_ROW;
\* lock_row with mode X by a transaction that holds none of X, IX, SIX on the row's table
\* aborts, with TABLE_LOCK_NOT_PRESENT when the isolation level admits the request; in
\* both cases no request is added to the row queue.
C16_Step ==
  \A t \in Txns, mode \in Modes, oid \in Tables, rid \in Rows :
    LockRow(t, mode, oid, rid) =>
      /\ mode \in {"IS", "IX", "SIX"} => AbortsWith(t, "ATTEMPTED_INTENTION_LOCK_ON_ROW")
      /\ (mode = "X" /\ TableModesHeld(t, oid) \cap {"X", "IX", "SIX"} = {}) =>
           /\ txn_state'[t] = "ABORTED"
           /\ row_lock_map_' = row_lock_map_
           /\ IsolationRule(t, mode) = "OK" => AbortsWith(t, "TABLE_LOCK_NOT_PRESENT")

SharedRowLocks(lrq, t) ==
  {lrq.request_queue_[i] : i \in {j \in 1..Len(lrq.request_queue_) :
      /\ lrq.request_queue_[j].txn_id_ = t
      /\ lrq.request_queue_[j].granted_
      /\ lrq.request_queue_[j].lock_mode_ = "S"}}

\* C17: an S row lock is granted only to a transaction that holds some lock on the row's
\* table: a step that grants t an S lock on a row starts in a state where t holds a lock on
\* the table of that row.
C17_Step ==
  \A t \in Txns, rid \in Rows :
    \A r \in SharedRowLocks(QueueNext(<<"row", rid>>), t) :
      r \notin SharedRowLocks(Queue(<<"row", rid>>), t) => TableModesHeld(t, r.oid_) # {}

C17_SharedRowNeedsTableLock == [][C17_Step]_vars

\* The rows of table oid on which t holds a granted S or X lock.
RowsHeld(t, oid) ==
  {rid \in Rows :
     LET q == Queue(<<"row", rid>>).request_queue_
     IN \E i \in 1..Len(q) : q[i].txn_id_ = t /\ q[i].granted_ /\ q[i].oid_ = oid}

RowModesHeld(t, rid) ==
  LET q == Queue(<<"row", rid>>).request_queue_
  IN {q[i].lock_mode_ : i \in {j \in 1..Len(q) : q[j].txn_id_ = t /\ q[j].granted_}}

\* C18: unlock_table of a table lock while the transaction still holds S or X row locks on
\* that table aborts with TABLE_UNLOCKED_BEFORE_UNLOCKING_ROWS; unlock_table or unlock_row
\* by a transaction with no granted request on the object aborts with
\* ATTEMPTED_UNLOCK_BUT_NO_LOCK_HELD (a transaction with row locks and no table lock meets
\* both descriptions and aborts with one of the two reasons); in every case the queues and
\* the lock sets stay as they were and the state becomes ABORTED.
C18_Step ==
  \A t \in Txns, oid \in Tables :
    /\ UnlockTable(t, oid) =>
         /\ (RowsHeld(t, oid) # {} /\ TableModesHeld(t, oid) # {})
              => AbortsWith(t, "TABLE_UNLOCKED_BEFORE_UNLOCKING_ROWS")
         /\ (RowsHeld(t, oid) = {} /\ TableModesHeld(t, oid) = {})
              => AbortsWith(t, "ATTEMPTED_UNLOCK_BUT_NO_LOCK_HELD")
         /\ (RowsHeld(t, oid) # {} /\ TableModesHeld(t, oid) = {})
              => \/ AbortsWith(t, "TABLE_UNLOCKED_BEFORE_UNLOCKING_ROWS")
                 \/ AbortsWith(t, "ATTEMPTED_UNLOCK_BUT_NO_LOCK_HELD")
    /\ \A rid \in Rows :
         (UnlockRow(t, oid, rid) /\ RowModesHeld(t, rid) = {})
           => AbortsWith(t, "ATTEMPTED_UNLOCK_BUT_NO_LOCK_HELD")

StateAfterUnlock(t, mode) ==
  IF txn_state[t] = "GROWING"
     /\ (mode = "X" \/ (mode = "S" /\ isolation_level[t] = "REPEATABLE_READ"))
  THEN "SHRINKING"
  ELSE txn_state[t]

\* The modes of the granted requests of t that a step takes out of queue qid.
ReleasedModes(qid, t) ==
  LET q == Queue(qid).request_queue_
      n == QueueNext(qid).request_queue_
  IN {q[i].lock_mode_ : i \in {j \in 1..Len(q) :
        /\ q[j].txn_id_ = t
        /\ q[j].granted_
        /\ \A k \in 1..Len(n) : n[k] # q[j]}}

\* C19: a successful unlock moves a GROWING transaction to SHRINKING exactly when the
\* released mode is X, or S under REPEATABLE_READ; releasing S under READ_COMMITTED or
\* READ_UNCOMMITTED, or IS, IX, SIX under any level, leaves the state as it was, and a
\* COMMITTED or ABORTED transaction is never moved to SHRINKING.
C19_Step ==
  \A t \in Txns, oid \in Tables :
    /\ (UnlockTable(t, oid) /\ QueueNext(<<"table", oid>>) # Queue(<<"table", oid>>))
         => \A mode \in ReleasedModes(<<"table", oid>>, t) :
              txn_state'[t] = StateAfterUnlock(t, mode)
    /\ \A rid \in Rows :
         (UnlockRow(t, oid, rid) /\ QueueNext(<<"row", rid>>) # Queue(<<"row", rid>>))
           => \A mode \in ReleasedModes(<<"row", rid>>, t) :
                txn_state'[t] = StateAfterUnlock(t, mode)

C19_ShrinkOnUnlock == [][C19_Step]_vars

\* One transaction under READ_COMMITTED has released an X lock and is SHRINKING; another
\* has released every lock after its commit and is still COMMITTED.
C19_Witness ==
  \E t, u \in Txns :
    /\ isolation_level[t] = "READ_COMMITTED"
    /\ txn_state[t] = "SHRINKING"
    /\ txn_state[u] = "COMMITTED"
    /\ \E qid \in QueueIds : arrival[qid] = <<>> /\ qid[2] \in DOMAIN (IF qid[1] = "table" THEN table_lock_map_ ELSE row_lock_map_)
    /\ \A qid \in QueueIds : u \notin {arrival[qid][i] : i \in 1..Len(arrival[qid])}

\* The ungranted requests of t in a queue.
WaitingOf(lrq, t) ==
  {i \in 1..Len(lrq.request_queue_) :
     lrq.request_queue_[i].txn_id_ = t /\ ~lrq.request_queue_[i].granted_}

\* A turn of the wait loop by t, blocked in queue qid, after its state was set to ABORTED:
\* its request leaves the queue, upgrading_ is cleared when the request was the upgrade,
\* the other waiters of the queue are notified, the call returns, and a waiter that is now
\* first among the ungranted and compatible with every granted request passes GrantLock.
C20_Cancel(t, qid) ==
  LET lrq == Queue(qid)
      nxt == QueueNext(qid)
      was_upgrader == lrq.upgrading_ = t
  IN /\ \A i \in 1..Len(nxt.request_queue_) : nxt.request_queue_[i].txn_id_ # t
     /\ Len(nxt.request_queue_) = Len(lrq.request_queue_) - 1
     /\ nxt.upgrading_ = IF was_upgrader THEN INVALID_TXN_ID ELSE lrq.upgrading_
     /\ lm_pc'[t] = Idle
     /\ txn_state'[t] = "ABORTED"
     /\ \A u \in Txns \ {t} :
          (lm_pc[u].at = "wait" /\ <<lm_pc[u].kind, lm_pc[u].key>> = qid)
            => /\ lm_notified'[u]
               /\ LET q == nxt.request_queue_
                      i == SetMin(WaitingOf(nxt, u))
                  IN (/\ i = FirstUngranted(q)
                      /\ \A j \in 1..Len(q) :
                           q[j].granted_ => Compatible(q[i].lock_mode_, q[j].lock_mode_))
                       => GrantLock(q[i], q)

C20_Step ==
  \A t \in Txns :
    (WaitLoop(t) /\ txn_state[t] = "ABORTED") => C20_Cancel(t, <<lm_pc[t].kind, lm_pc[t].key>>)

C20_Cancelled(t) ==
  /\ lm_pc[t].at = "idle"
  /\ \A qid \in QueueIds : WaitingOf(Queue(qid), t) = {}

\* C20: a blocked transaction whose state is set to ABORTED and which is then notified
\* removes its own request from the queue, clears upgrading_ if it was the upgrader,
\* notifies the other waiters and returns; afterwards the queue holds no request of it and
\* the requests behind it can be granted.
C20_WaiterCancellation ==
  /\ [][C20_Step]_vars
  /\ \A t \in 1..NumTxns :
       (lm_pc[t].at = "wait" /\ txn_state[t] = "ABORTED" /\ lm_notified[t]) ~> C20_Cancelled(t)

\* An upgrader was aborted while blocked and has left its queue; upgrading_ is clear and
\* the transaction that waited behind it holds the lock.
C20_Witness ==
  \E t, u \in Txns, qid \in QueueIds :
    LET q == Queue(qid).request_queue_
    IN /\ txn_state[t] = "ABORTED"
       /\ abort_reason[t] = "NONE"
       /\ C20_Cancelled(t)
       /\ \A i \in 1..Len(q) : q[i].txn_id_ # t
       /\ Queue(qid).upgrading_ = INVALID_TXN_ID
       /\ u # t
       /\ \E i \in 1..Len(q) : q[i].txn_id_ = u /\ q[i].granted_ /\ q[i].lock_mode_ = "X"

\* ------------------------------------------------------------------------
\* Properties of the buffer pool
\* ------------------------------------------------------------------------
\* C2: the page table maps page id p to frame f exactly when frame f stores page id p, and no
\* two frames store the same page id.
C2_Bijection ==
  /\ \A p \in PageIds, f \in Frames :
       (Find(page_table_, p).found /\ Find(page_table_, p).value = f) <=> pages_[f].page_id_ = p
  /\ \A f, g \in Frames :
       (f # g /\ pages_[f].page_id_ = pages_[g].page_id_) => pages_[f].page_id_ = INVALID_PAGE_ID

\* Every frame holds a page, every page id is handed out, and the last call evicted a page.
C2_Witness ==
  /\ \A f \in Frames : pages_[f].page_id_ # INVALID_PAGE_ID
  /\ next_page_id_ = MaxPages
  /\ bpm_ret.evicted

C4_Step ==
  \A f \in Frames :
    pages_[f].pin_count_ > 0 =>
      /\ pages_'[f].page_id_ = pages_[f].page_id_
      /\ Find(page_table_', pages_[f].page_id_) = Find(page_table_, pages_[f].page_id_)

\* C4: no call takes the frame of a page whose pin_count is above 0 for another page: the
\* frame keeps its page id, and the page table keeps pointing at it.
C4_PinnedNeverEvicted == [][C4_Step]_vars

\* A page was evicted while another frame held a pinned page.
C4_Witness ==
  /\ bpm_ret.evicted
  /\ \E f \in Frames : pages_[f].pin_count_ > 0 /\ f # bpm_ret.frame

\* C5: new_page and fetch_page of a page that is not cached return none only when every
\* frame holds a page with pin_count above 0.
C5_NoneOnlyWhenAllPinned ==
  (bpm_ret.op \in {"NewPg", "FetchPg"} /\ ~bpm_ret.ok)
    => \A f \in Frames : pages_[f].page_id_ # INVALID_PAGE_ID /\ pages_[f].pin_count_ > 0

\* C6: the pin_count of a cached page is the number of successful new_page and fetch_page
\* calls for it less the number of successful unpin_page calls since it was loaded, and it is
\* never negative.
C6_PinCount ==
  \A f \in Frames :
    /\ pages_[f].pin_count_ >= 0
    /\ pages_[f].page_id_ # INVALID_PAGE_ID => pages_[f].pin_count_ = pin_balance[f]

\* A page fetched again while pinned, and a page unpinned down to zero.
C6_Witness ==
  /\ \E f \in Frames : pages_[f].page_id_ # INVALID_PAGE_ID /\ pages_[f].pin_count_ = MaxPin
  /\ \E f \in Frames : pages_[f].page_id_ # INVALID_PAGE_ID /\ pages_[f].pin_count_ = 0

\* The frame that holds page p, when one does.
Cached(p) == \E f \in Frames : pages_[f].page_id_ = p

FrameOf(p) == CHOOSE f \in Frames : pages_[f].page_id_ = p

Tracked(r, f) == InList(r.inf_history_list_, f) \/ InList(r.history_list_, f)

\* C23: unpin_page returns false and changes no frame metadata when the page is not cached
\* or its pin_count is 0; otherwise it returns true, takes one from pin_count, sets is_dirty
\* to (old is_dirty or dirty_flag), and the replacer has the frame evictable afterwards
\* exactly when pin_count reached 0.
C23_Step ==
  \A p \in PageIds, dirty_flag \in BOOLEAN :
    UnpinPgImp(p, dirty_flag) =>
      IF ~Cached(p) \/ pages_[FrameOf(p)].pin_count_ = 0
      THEN /\ ~bpm_ret'.ok
           /\ UNCHANGED <<pages_, free_list_, replacer_, page_table_>>
      ELSE LET f == FrameOf(p)
           IN /\ bpm_ret'.ok
              /\ pages_' = [pages_ EXCEPT ![f] =
                              [page_id_ |-> p,
                               pin_count_ |-> pages_[f].pin_count_ - 1,
                               is_dirty_ |-> pages_[f].is_dirty_ \/ dirty_flag,
                               data_ |-> pages_[f].data_]]
              /\ f \notin replacer_'.non_evictable_set_ <=> pages_'[f].pin_count_ = 0
              /\ UNCHANGED <<free_list_, page_table_>>

C23_Unpin == [][C23_Step]_vars

\* The last call unpinned a page down to zero, the page is dirty, and another page is
\* still pinned.
C23_Witness ==
  /\ bpm_ret.op = "UnpinPg" /\ bpm_ret.ok
  /\ pages_[bpm_ret.frame].pin_count_ = 0
  /\ pages_[bpm_ret.frame].is_dirty_
  /\ bpm_ret.frame \notin replacer_.non_evictable_set_
  /\ \E f \in Frames : pages_[f].pin_count_ > 0

Mapped(f) == \E p \in PageIds : Find(page_table_, p).found /\ Find(page_table_, p).value = f

\* C24: delete_page returns true and changes nothing when the page is not cached, returns
\* false and changes nothing when the page is cached with pin_count above 0, and otherwise
\* takes the page out of the directory and the frame out of both orders of the replacer,
\* resets the frame and appends it to the free list; at all times each frame is either on
\* the free list or mapped by the directory, and never both.
C24_Step ==
  \A p \in PageIds :
    DeletePgImp(p) =>
      IF ~Cached(p)
      THEN /\ bpm_ret'.ok
           /\ UNCHANGED <<pages_, free_list_, replacer_, page_table_>>
      ELSE IF pages_[FrameOf(p)].pin_count_ > 0
      THEN /\ ~bpm_ret'.ok
           /\ UNCHANGED <<pages_, free_list_, replacer_, page_table_>>
      ELSE LET f == FrameOf(p)
           IN /\ bpm_ret'.ok
              /\ ~Find(page_table_', p).found
              /\ ~Tracked(replacer_', f)
              /\ pages_' = [pages_ EXCEPT ![f] =
                              [page_id_ |-> INVALID_PAGE_ID, pin_count_ |-> 0, is_dirty_ |-> FALSE, data_ |-> 0]]
              /\ free_list_' = Append(free_list_, f)

C24_FreeOrMapped == \A f \in Frames : InList(free_list_, f) <=> ~Mapped(f)

C24_Delete == [][C24_Step]_vars /\ []C24_FreeOrMapped

\* The last call deleted a cached page, and a later call can fail on a pinned one.
C24_Witness ==
  /\ bpm_ret.op = "DeletePg" /\ bpm_ret.ok /\ bpm_ret.frame # -1
  /\ InList(free_list_, bpm_ret.frame)
  /\ ~Mapped(bpm_ret.frame)
  /\ \E f \in Frames : pages_[f].pin_count_ > 0

\* ------------------------------------------------------------------------
\* Properties of the replacer
\* ------------------------------------------------------------------------
SetMax(S) == CHOOSE x \in S : \A y \in S : x >= y

\* What the caller of the replacer knows: the frames with an access on record that were
\* not made non-evictable, those of them with fewer than ReplacerK accesses, and the rest.
EvictableFrames ==
  {f \in 0..(ReplacerSize - 1) : Accesses(access_log, f) # {} /\ f \notin replacer_.non_evictable_set_}

UnderK == {f \in EvictableFrames : Cardinality(Accesses(access_log, f)) < ReplacerK}

AtLeastK == EvictableFrames \ UnderK

FirstAccess(f) == SetMin(Accesses(access_log, f))

LastAccess(f) == SetMax(Accesses(access_log, f))

\* C21: evict() returns the evictable frame with fewer than K accesses on record whose
\* first access is the oldest, when there is such a frame; otherwise the evictable frame
\* with K accesses or more whose latest access is the oldest; and never a non-evictable
\* frame.
C21_Step ==
  LrukEvict =>
    /\ UnderK # {} =>
         /\ bpm_ret'.ok
         /\ bpm_ret'.frame \in UnderK
         /\ \A g \in UnderK : FirstAccess(bpm_ret'.frame) <= FirstAccess(g)
    /\ (UnderK = {} /\ AtLeastK # {}) =>
         /\ bpm_ret'.ok
         /\ bpm_ret'.frame \in AtLeastK
         /\ \A g \in AtLeastK : LastAccess(bpm_ret'.frame) <= LastAccess(g)
    /\ bpm_ret'.ok => bpm_ret'.frame \notin replacer_.non_evictable_set_

C21_VictimChoice == [][C21_Step]_vars

TrackedEvictable ==
  {f \in 0..(ReplacerSize - 1) : Tracked(replacer_, f) /\ f \notin replacer_.non_evictable_set_}

\* C22: after any sequence of record_access, set_evictable, evict and remove calls, size()
\* is the number of frames that are in the under-K or the at-least-K order and evictable,
\* and evict() returns a frame exactly when that number is above 0.
C22_Step == LrukEvict => (bpm_ret'.ok <=> Cardinality(TrackedEvictable) > 0)

C22_Size == replacer_.curr_size_ = Cardinality(TrackedEvictable)

C22_SizeCountsEvictable == [][C22_Step]_vars /\ []C22_Size

\* ------------------------------------------------------------------------
\* Properties of the hash table
\* ------------------------------------------------------------------------
\* The entries of key k, in all buckets.
EntriesOf(k) ==
  {<<b, i>> \in (1..Len(page_table_.buckets)) \X (1..BucketSize) :
     i <= Len(page_table_.buckets[b].list_) /\ page_table_.buckets[b].list_[i][1] = k}

\* C26: the hash table is a finite map: after any sequence of insert and remove calls,
\* with the bucket splits and directory doublings they bring, find(k) gives the value of
\* the latest insert(k, v) that no remove(k) followed, and gives nothing otherwise; an
\* insert of a key that is present replaces its value; no entry is lost or doubled.
C26_FiniteMap ==
  /\ \A k \in HashKeys :
       /\ Find(page_table_, k).found <=> kv_hist[k] # -1
       /\ Find(page_table_, k).found => Find(page_table_, k).value = kv_hist[k]
       /\ Cardinality(EntriesOf(k)) = IF kv_hist[k] # -1 THEN 1 ELSE 0
  /\ bpm_ret.op = "Find" =>
       /\ bpm_ret.ok <=> kv_hist[bpm_ret.page_id] # -1
       /\ bpm_ret.frame = kv_hist[bpm_ret.page_id]

\* The directory doubled twice, five keys are in the table, one of them with the second
\* value, one key was removed, and the last call found a key.
C26_Witness ==
  /\ page_table_.global_depth_ >= 2
  /\ Cardinality({k \in HashKeys : kv_hist[k] # -1}) = MaxHashKey
  /\ \E k \in HashKeys : kv_hist[k] = 1
  /\ bpm_ret.op = "Find" /\ bpm_ret.ok

\* C25: write-back round trip.  page_hist[p] holds the bytes page p had at its last unpin with
\* is_dirty = true (and is -1 once the page is written again).  Whenever p is cached,
\* also after any number of evictions by NewPgImp or FetchPgImp and a fetch back from disk, its
\* frame holds those bytes; and a step that gives a dirty frame to another page has written the
\* frame's bytes to disk under the old page id.
C25_RoundTrip ==
  \A p \in PageIds :
    (Cached(p) /\ page_hist[p] # -1) => pages_[FrameOf(p)].data_ = page_hist[p]

C25_ReuseStep ==
  \A f \in Frames :
    (/\ pages_[f].page_id_ # INVALID_PAGE_ID
     /\ pages_[f].is_dirty_
     /\ pages_'[f].page_id_ # INVALID_PAGE_ID
     /\ pages_'[f].page_id_ # pages_[f].page_id_)
    => disk_pages'[pages_[f].page_id_] = pages_[f].data_

RECURSIVE Ascending(_)
Ascending(S) ==
  IF S = {} THEN <<>> ELSE <<SetMin(S)>> \o Ascending(S \ {SetMin(S)})

LiveKeys == {k \in Keys : tree_kv[k] # 0}

\* C3: whatever Insert and Remove calls came before, an iteration from Begin() to End()
\* ends and yields the keys inserted and not removed since, each once, ascending.
C3_IterationYieldsLiveKeys ==
  tree_ret.op = "Iterate" => tree_ret.ret /\ tree_ret.keys = Ascending(LiveKeys)

\* C10: whatever Insert and Remove calls came before, GetValue(k) returns the value of
\* the last successful Insert of k when k was not removed since, and not-found otherwise.
C10_GetValueReturnsLastInsert ==
  tree_ret.op = "GetValue" =>
    /\ tree_fault = NoFault
    /\ tree_ret.ret = (tree_kv[tree_ret.key] # 0)
    /\ tree_ret.ret => tree_ret.value = tree_kv[tree_ret.key]

\* The pages reachable from page_id through child pointers, each with its depth.
RECURSIVE ReachableFrom(_, _, _, _)
ReachableFrom(pages, page_id, depth, fuel) ==
  IF page_id \notin DOMAIN pages \/ fuel = 0 THEN {<<page_id, -1>>}
  ELSE IF IsLeafPage(pages[page_id]) THEN {<<page_id, depth>>}
  ELSE {<<page_id, depth>>} \cup
       UNION {ReachableFrom(pages, c, depth + 1, fuel - 1) : c \in Children(pages[page_id].array_)}

Reachable ==
  IF root_page_id_ = INVALID_PAGE_ID THEN {}
  ELSE ReachableFrom(tree_pages, root_page_id_, 0, tree_next_page_id)

LeafDepths ==
  {n[2] : n \in {m \in Reachable : m[2] = -1 \/ IsLeafPage(tree_pages[m[1]])}}

\* C11: after every completed Insert or Remove all leaves reachable from the root are at
\* the same depth, and every node but the root holds between ceil(max_size / 2) and
\* max_size entries, for odd max_size as well as even.
C11_Balanced ==
  (tree_ret.op \in {"Insert", "Remove"} /\ tree_fault = NoFault) =>
    /\ Cardinality(LeafDepths) <= 1
    /\ \A n \in Reachable :
         (n[2] # -1 /\ n[1] # root_page_id_) =>
           LET page == tree_pages[n[1]]
           IN /\ GetSize(page) >= (GetMaxSize(page) + 1) \div 2
              /\ GetSize(page) <= GetMaxSize(page)

\* The key is held by a leaf that is reachable from the root.
InTree(k) ==
  \E n \in Reachable :
    /\ n[2] # -1
    /\ IsLeafPage(tree_pages[n[1]])
    /\ \E i \in DOMAIN tree_pages[n[1]].array_ : tree_pages[n[1]].array_[i].first = k

\* C27: Insert of a key that is already in the tree returns false and leaves the tree as
\* it was: the same root page id, the same pages with the same keys and values, and no
\* page is unpinned dirty by the call.
C27_Step ==
  \A k \in Keys, v \in Values :
    (TreeInsert(k, v) /\ InTree(k)) =>
      /\ tree_fault' = NoFault
      /\ ~tree_ret'.ret
      /\ root_page_id_' = root_page_id_
      /\ tree_pages' = tree_pages
      /\ InsertDirties(TreeNow, k, v) = {}

C27_DuplicateInsert == [][C27_Step]_vars

\* C28: an iteration from Begin(k) to End() ends and yields the keys >= k that were
\* inserted and not removed since, ascending, whether k itself is stored or not.
C28_BeginAtKey ==
  tree_ret.op = "IterateFrom" =>
    /\ tree_ret.ret
    /\ tree_ret.keys = Ascending({k \in LiveKeys : k >= tree_ret.key})

\* C30: after every completed Insert or Remove the header page's record for the index
\* name equals the tree's root_page_id_: recorded when the first Insert creates the root,
\* updated when the root splits, when an internal root with one child gives way to that
\* child, and when the tree becomes empty.
C30_HeaderRecord ==
  (tree_ret.op \in {"Insert", "Remove"} /\ tree_fault = NoFault) =>
    header_record = root_page_id_

\* The slots of the parent that hold the child page id.
SlotsOf(parent, page_id) ==
  {i \in 0..(GetSize(parent) - 1) : parent.array_[i + 1].second = page_id}

\* C31: when a Remove finds a page below its minimum, the parent's lookup by child page
\* id answers the slot that holds the page, whatever the order of the child page ids,
\* and the sibling taken is the slot to the left, or the slot to the right for slot 0.
C31_Step ==
  \A k \in Keys :
    TreeRemove(k) =>
      \A l \in RemoveLookups(TreeNow, k) :
        LET parent == tree_pages[l.parent]
        IN SlotsOf(parent, l.page) # {} =>
             /\ l.find
             /\ l.index \in SlotsOf(parent, l.page)
             /\ l.sibling_index = IF l.index = 0 THEN 1 ELSE l.index - 1

C31_SiblingChoice == [][C31_Step]_vars

\* The keys held by the leaves below page_id.
RECURSIVE SubtreeKeys(_, _, _)
SubtreeKeys(pages, page_id, fuel) ==
  IF page_id \notin DOMAIN pages \/ fuel = 0 THEN {}
  ELSE IF IsLeafPage(pages[page_id])
  THEN {pages[page_id].array_[i].first : i \in DOMAIN pages[page_id].array_}
  ELSE UNION {SubtreeKeys(pages, c, fuel - 1) : c \in Children(pages[page_id].array_)}

\* C32: after every completed Insert or Remove, in every internal node reachable from the
\* root the keys of the slots 1 .. size-1 are strictly ascending, every key below child i
\* is >= key[i] and every key below child i-1 is < key[i].
C32_Separators ==
  (tree_ret.op \in {"Insert", "Remove"} /\ tree_fault = NoFault) =>
    \A n \in Reachable :
      (n[2] # -1 /\ ~IsLeafPage(tree_pages[n[1]])) =>
        LET array == tree_pages[n[1]].array_
        IN /\ \A i \in 2..(Len(array) - 1) : array[i].first < array[i + 1].first
           /\ \A i \in 2..Len(array) :
                /\ \A k \in SubtreeKeys(tree_pages, array[i].second, tree_next_page_id) :
                     k >= array[i].first
                /\ \A k \in SubtreeKeys(tree_pages, array[i - 1].second, tree_next_page_id) :
                     k < array[i].first

RootIsLeaf ==
  /\ root_page_id_ \in DOMAIN tree_pages
  /\ IsLeafPage(tree_pages[root_page_id_])

LeafKeys(page) == {page.array_[i].first : i \in DOMAIN page.array_}

\* C34: Remove(k) on a tree whose root is a leaf never fails an assertion; while an entry
\* remains the root page stays the root, holds the remaining keys and GetValue finds each
\* of them, also when fewer than ceil(max_size / 2) remain; the tree becomes empty exactly
\* when the last entry is removed.
C34_Step ==
  \A k \in Keys :
    (TreeRemove(k) /\ RootIsLeaf) =>
      LET remaining == LeafKeys(tree_pages[root_page_id_]) \ {k}
          after == [TreeNow EXCEPT !.pages = tree_pages', !.root_page_id_ = root_page_id_']
      IN /\ tree_fault' = NoFault
         /\ remaining # {} =>
              /\ root_page_id_' = root_page_id_
              /\ root_page_id_ \in DOMAIN tree_pages'
              /\ LeafKeys(tree_pages'[root_page_id_]) = remaining
              /\ \A r \in remaining : BPlusTreeGetValue(after, r).find
         /\ remaining = {} <=> root_page_id_' = INVALID_PAGE_ID

C34_RootLeafRemove == [][C34_Step]_vars

\* Reached: a Remove has left the root leaf with one entry, fewer than ceil(3 / 2) = 2.
C34_Witness ==
  /\ tree_ret.op = "Remove"
  /\ RootIsLeaf
  /\ GetSize(tree_pages[root_page_id_]) = 1
  /\ GetSize(tree_pages[root_page_id_]) < (LeafMaxSize + 1) \div 2

PinsBalanced(pins) == \A p \in DOMAIN pins : pins[p] = 0

\* C37: every GetValue, Insert or Remove call that returns has unpinned each page as often
\* as it fetched or created it: no B+tree page and not the header page keeps a pin of the
\* call.
C37_Step ==
  /\ \A k \in Keys : (TreeGetValue(k) /\ tree_fault' = NoFault) => PinsBalanced(GetValuePins(TreeNow, k))
  /\ \A k \in Keys, v \in Values :
       (TreeInsert(k, v) /\ tree_fault' = NoFault) => PinsBalanced(InsertPins(TreeNow, k, v))
  /\ \A k \in Keys : (TreeRemove(k) /\ tree_fault' = NoFault) => PinsBalanced(RemovePins(TreeNow, k))

C37_PinBalance == [][C37_Step]_vars

\* ------------------------------------------------------------------------
\* Properties of the B+tree under concurrent calls
\* ------------------------------------------------------------------------
WriteCalls == {"Insert", "Remove"}

Holds(t, p) == thr[t].w_cur = p \/ InPageSet(t, p)

HeldBy(t) == {p \in DOMAIN tree_pages \cup {ROOT_PAGE_ID_LATCH} : Holds(t, p)}

\* C12: during the descent of an Insert or a Remove, a thread that holds the write latch
\* of a node that is not safe holds the write latch of the node above it on its path, and
\* the root-id write latch when that node is the first of the path, so that the latches
\* held reach up to the lowest safe node of the path, or to the root-id latch when no node
\* of the path is safe; the thread lets go of a latch during the descent only in the step
\* that latches a child and finds it safe.
C12_Chain ==
  \A t \in Threads :
    (thr[t].op \in WriteCalls /\ thr[t].pc \in {"latch", "leaf"}) =>
      LET path == thr[t].path
          mode == ModeOf(thr[t].op)
      IN /\ path # <<>> => thr[t].w_cur = Last(path)
         /\ path = <<>> => InPageSet(t, ROOT_PAGE_ID_LATCH)
         /\ \A k \in 1..Len(path) :
              (Holds(t, path[k]) /\ ~IsSafe(tree_pages[path[k]], mode)) =>
                IF k = 1 THEN InPageSet(t, ROOT_PAGE_ID_LATCH) ELSE Holds(t, path[k - 1])

C12_Step ==
  \A t \in Threads :
    (/\ thr[t].op \in WriteCalls
     /\ thr[t].pc \in {"latch", "leaf"}
     /\ thr'[t].pc \in {"latch", "leaf"}
     /\ HeldBy(t) \ HeldBy(t)' # {}) =>
      /\ thr'[t].w_cur # thr[t].w_cur
      /\ thr'[t].w_cur \in DOMAIN tree_pages'
      /\ IsSafe(tree_pages'[thr'[t].w_cur], ModeOf(thr[t].op))
      /\ HeldBy(t)' = {thr'[t].w_cur}

C12_WriteCrabbing == [][C12_Step]_vars /\ []C12_Chain

\* An Insert stands on an unsafe leaf two levels below the root, with the latch of the
\* leaf's parent, which was safe, and without the latches above it; a Remove stands on a
\* leaf two levels below the root with the root-id latch and every latch of its path.
C12_Witness ==
  \E t \in Threads, u \in Threads :
    /\ thr[t].op = "Insert" /\ thr[t].pc = "leaf" /\ Len(thr[t].path) = 3
    /\ thr[t].page_set = <<thr[t].path[2]>>
    /\ ~IsSafe(tree_pages[thr[t].w_cur], "INSERT")
    /\ thr[u].op = "Remove" /\ thr[u].pc = "leaf" /\ Len(thr[u].path) = 3
    /\ thr[u].page_set = <<ROOT_PAGE_ID_LATCH, thr[u].path[1], thr[u].path[2]>>

ReadCalls == {"GetValue", "Begin", "End"}

Descending(t) == thr[t].pc \in {"fetched", "latch", "leaf"}

\* C13: in a read-mode descent (GetValue, Begin, End) the root-id read latch is released
\* only after the read latch of the root page has been acquired, a parent's read latch is
\* released only after the child's read latch has been acquired, and so a reader holds at
\* least one latch at every moment between reading root_page_id_ and reaching the leaf.
C13_Step ==
  \A t \in Threads :
    (thr[t].op \in ReadCalls /\ Descending(t)) =>
      /\ (thr[t].root_r /\ ~thr'[t].root_r) => thr[t].page \in thr[t].r_held
      /\ \A p \in thr[t].r_held \ thr'[t].r_held :
           Descending(t)' => Last(thr'[t].path) \in thr'[t].r_held

C13_Holds ==
  \A t \in Threads :
    (thr[t].op \in ReadCalls /\ Descending(t)) =>
      \/ thr[t].root_r
      \/ thr[t].path # <<>> /\ Last(thr[t].path) \in thr[t].r_held

C13_ReadCrabbing == [][C13_Step]_vars /\ []C13_Holds

\* C29: a live iterator holds the read latch of its current leaf and of no other page,
\* also after operator++ has moved it to the next leaf; and once a thread's iterator is
\* destroyed, the thread holds no page latch that Begin, Begin(k), End or operator++
\* acquired.
HasIterator(t) == thr[t].pc = "idle" /\ thr[t].ret = "iterator" /\ thr[t].it_leaf # 0

C29_IteratorLatches ==
  \A t \in Threads :
    /\ HasIterator(t) => thr[t].r_held = {thr[t].it_leaf}
    /\ (thr[t].pc = "idle" /\ thr[t].ret = "destroyed") => thr[t].r_held = {}

\* The pages of the tree whose entries the step changes or that it deletes.
ChangedPages ==
  {p \in DOMAIN tree_pages :
     p \notin DOMAIN tree_pages' \/ tree_pages'[p].array_ # tree_pages[p].array_}

\* The siblings CoalesceOrRedistribute write-latches when thread t removes its key.
LatchedSiblings(t) ==
  LET leaf_id == thr[t].page
      leaf == LeafRemove(tree_pages[leaf_id], thr[t].key)
  IN {l.sibling : l \in SiblingLookups([TreeNow EXCEPT !.pages[leaf_id] = leaf], leaf_id)}

\* C33: a page judged safe during a write descent has been released with the page set
\* above it and is not changed by the call: every page whose entries an Insert or Remove
\* changes is write-latched by the calling thread when it changes (it is the leaf, in the
\* page set, or a sibling latched by CoalesceOrRedistribute), and the root page id
\* changes only under the write-held root-id latch.
C33_Step ==
  \A t \in Threads :
    (AtLeaf(t) /\ thr[t].op \in WriteCalls) =>
      /\ \A p \in ChangedPages :
           \/ Holds(t, p)
           \/ thr[t].op = "Remove" /\ p \in LatchedSiblings(t)
      /\ root_page_id_' # root_page_id_ => InPageSet(t, ROOT_PAGE_ID_LATCH)

C33_SafeNodesUnchanged == [][C33_Step]_vars

\* Reached: an Insert of the concurrent model has split the root leaf [1, 2, 4] or
\* [2, 4, k] of the one-leaf tree, so that page 3 is the new root.
C33_Witness ==
  /\ root_page_id_ = 3
  /\ tree_next_page_id = 4
  /\ \E t \in Threads : thr[t].op = "Insert" /\ thr[t].pc = "idle" /\ thr[t].ret = "true"

\* ------------------------------------------------------------------------
\* Further properties of the lock manager

AllQueues ==
  {table_lock_map_[oid].request_queue_ : oid \in DOMAIN table_lock_map_}
    \cup {row_lock_map_[rid].request_queue_ : rid \in DOMAIN row_lock_map_}

GrantedFirst(q) == \A i, j \in 1..Len(q) : (i < j /\ q[j].granted_) => q[i].granted_

\* C35: in every request queue the granted requests precede the ungranted ones, and a
\* pending upgrade request is the first ungranted request of its queue, the one GrantLock
\* admits next.
C35_QueueOrder ==
  \A q \in AllQueues :
    /\ GrantedFirst(q)
    /\ \A i \in 1..Len(q) : (q[i].upgrade_ /\ ~q[i].granted_) => i = FirstUngranted(q)

\* Reached: an upgrade request waits in front of another transaction's waiting request.
C35_Witness ==
  \E q \in AllQueues :
    \E i, j \in 1..Len(q) :
      /\ i < j
      /\ q[i].upgrade_ /\ ~q[i].granted_
      /\ ~q[j].granted_
      /\ \E h \in 1..Len(q) : q[h].granted_

GrantedIn(q, t, mode) ==
  \E i \in 1..Len(q) : q[i].txn_id_ = t /\ q[i].lock_mode_ = mode /\ q[i].granted_

QueueOf(map, key) == IF key \in DOMAIN map THEN map[key].request_queue_ ELSE <<>>

AllRequestQueues ==
  {table_lock_map_[oid] : oid \in DOMAIN table_lock_map_}
    \cup {row_lock_map_[rid] : rid \in DOMAIN row_lock_map_}

\* C36: the lock sets of a transaction that is not inside a lock manager call mirror the
\* queues: table oid is in its set for a mode iff oid's queue holds its granted request of
\* that mode, row rid is in its S / X row set of some table iff rid's queue holds its granted
\* S / X request; a queue holds at most one request per transaction, so an upgraded lock is
\* in the set of the new mode alone, and upgrading_ names a transaction only while its
\* upgrade request waits.
C36_LockSetsMirrorQueues ==
  /\ \A t \in Txns :
       lm_pc[t].at = "idle" =>
         /\ \A mode \in Modes, oid \in Tables :
              oid \in table_lock_set[t][mode] <=> GrantedIn(QueueOf(table_lock_map_, oid), t, mode)
         /\ \A mode \in {"S", "X"}, rid \in Rows :
              (\E oid \in Tables : rid \in row_lock_set[t][mode][oid])
                <=> GrantedIn(QueueOf(row_lock_map_, rid), t, mode)
         /\ \A mode \in {"S", "X"}, rid \in Rows, oid \in Tables :
              rid \in row_lock_set[t][mode][oid] =>
                \E i \in DOMAIN QueueOf(row_lock_map_, rid) :
                  LET r == QueueOf(row_lock_map_, rid)[i]
                  IN r.txn_id_ = t /\ r.lock_mode_ = mode /\ r.granted_ /\ r.oid_ = oid
  /\ \A lrq \in AllRequestQueues :
       LET q == lrq.request_queue_
       IN /\ \A i, j \in 1..Len(q) : q[i].txn_id_ = q[j].txn_id_ => i = j
          /\ lrq.upgrading_ # INVALID_TXN_ID =>
               \E i \in 1..Len(q) :
                 q[i].txn_id_ = lrq.upgrading_ /\ q[i].upgrade_ /\ ~q[i].granted_

\* Reached: a transaction has returned from a granted upgrade (it holds a lock in front of
\* a request that arrived before its own) and its lock set holds the table.
C36_Witness ==
  \E oid \in DOMAIN table_lock_map_ :
    LET q == table_lock_map_[oid].request_queue_
        arr == arrival[<<"table", oid>>]
    IN \E i, j \in 1..Len(q) :
         /\ i < j /\ q[i].granted_ /\ ~q[j].granted_
         /\ lm_pc[q[i].txn_id_].at = "idle"
         /\ oid \in table_lock_set[q[i].txn_id_][q[i].lock_mode_]
         /\ table_lock_map_[oid].upgrading_ = INVALID_TXN_ID
         /\ \E a, b \in 1..Len(arr) : a < b /\ arr[a] = q[j].txn_id_ /\ arr[b] = q[i].txn_id_

\* No call of another thread, finished or under way, inserts or removes key k.
Untouched(t, k) ==
  \A u \in Threads \ {t} : ~(thr[u].op \in WriteCalls /\ thr[u].key = k)

\* C38: a GetValue(k) finds k when k is in the tree during the whole call, whatever Insert
\* and Remove calls on other keys run beside it: the reader reaches a leaf, and the leaf
\* it reaches holds k.
C38_Step ==
  \A t \in Threads :
    (thr[t].op = "GetValue" /\ thr[t].pc \in {"latch", "leaf"}
       /\ tree_kv[thr[t].key] # 0 /\ Untouched(t, thr[t].key)) =>
      /\ thr'[t].pc # "fault"
      /\ AtLeaf(t) => thr'[t].ret = "true"

C38_ConcurrentGetValue == [][C38_Step]_vars

InCall(t) ==
  thr[t].op \in {"GetValue", "Insert", "Remove"} /\ thr[t].pc \in {"fetched", "latch", "leaf"}

\* C39: under fair scheduling every GetValue, Insert and Remove call that has started its
\* descent returns, also when other threads have created, advanced and destroyed
\* iterators: no thread waits for a latch forever.
C39_CallsReturn ==
  \A t \in 1..NumThreads : InCall(t) ~> (thr[t].pc = "idle")

\* A thread waits for the write latch of a leaf whose read latch is held by a thread that
\* has destroyed its iterator and makes no further call.
C39_Stuck ==
  \E t, u \in Threads :
    /\ tree_fault = NoFault
    /\ thr[t].op = "Insert" /\ thr[t].pc = "latch"
    /\ thr[u].pc = "idle" /\ thr[u].ret = "destroyed" /\ thr[u].calls = MaxCalls
    /\ thr[t].page \in thr[u].r_held

\* Transaction t is blocked in cv_.wait and GrantLock admits its request: the request is
\* the first ungranted one of its queue and compatible with every granted request.
Admitted(t) ==
  /\ lm_pc[t].at = "wait"
  /\ GrantLock(WaitingRequest(t), WaitingQueue(t).request_queue_)

C40_GrantOnWake ==
  \A t \in Txns :
    (WaitLoop(t) /\ Admitted(t) /\ txn_state[t] # "ABORTED") =>
      /\ lm_pc'[t].at = "idle"
      /\ LET q == IF lm_pc[t].kind = "table" THEN table_lock_map_'[lm_pc[t].key].request_queue_
                  ELSE row_lock_map_'[lm_pc[t].key].request_queue_
         IN GrantedIn(q, t, WaitingRequest(t).lock_mode_)

\* C40: no wake-up is lost.  Whenever a waiter's request is admitted by the grant rule (after
\* an unlock, a grant or the removal of an aborted waiter changed its queue), a notify_all
\* for the waiter is pending; the woken waiter is granted the lock if it is still admitted;
\* and under fair scheduling of woken threads no waiter stays blocked while admitted.
C40_NoLostWakeup ==
  /\ [](\A t \in 1..NumTxns : Admitted(t) => lm_notified[t])
  /\ [][C40_GrantOnWake]_vars
  /\ \A t \in 1..NumTxns : Admitted(t) ~> ~Admitted(t)

\* Reached: a change of its queue has left a waiter admitted and woken, and the waiter is
\* not aborted.
C40_Witness ==
  \E t \in Txns :
    /\ Admitted(t)
    /\ lm_notified[t]
    /\ txn_state[t] # "ABORTED"

====
